---- MODULE Spec2Model ----
(***************************************************************************)
(* A model of whiptail-tui: the dialog invocation protocol (show / run and *)
(* the per-widget reactions), the composite form and line-input loops, the *)
(* gauge session, the list widgets (menu, checklist, radiolist) and the    *)
(* base class's construction, geometry and common options.                 *)
(*                                                                         *)
(* Python strings are modelled as sequences of one-character strings, so   *)
(* that len, strip, concatenation and formatting are computed, e.g. the    *)
(* text " y" is << " ", "y" >> and the empty string is << >>.              *)
(***************************************************************************)
EXTENDS Integers, Sequences, FiniteSets, TLC

VARIABLES
    top,             \* the widget the caller constructed and shows
    phase,           \* "idle" | "running" | "returned" | "raised" of the top-level show
    stack,           \* the active show() calls, outermost first; the last one waits on its child
    events,          \* history: spawns, child exits, dispatches, callbacks, returns, raises
    values,          \* the form items' current value, by item index
    box_extra_args,  \* the form's trailing arguments (self.box_extra_args)
    raised,          \* the exception that left the top-level show, or NoExc
    result,          \* the Response the top-level show returned, or NoResp
    gauge,           \* the gauge session (see GaugeInit)
    lst,             \* the caller's list items and its menu, checklist or radiolist
    base             \* a widget as WhiptailBase sees it: geometry and common options

\* what the dialog machine works on
mvars == <<phase, stack, events, values, box_extra_args, raised, result>>
dvars == <<top, phase, stack, events, values, box_extra_args, raised, result, lst, base>>
vars == <<top, phase, stack, events, values, box_extra_args, raised, result, gauge,
          lst, base>>

(***************************************************************************)
(* Bounds of the model.                                                    *)
(***************************************************************************)
\* child processes spawned within one top-level show
MaxSpawns == 7
\* update_percent / terminate / start calls recorded in one gauge session
MaxCalls == 2
\* of these, the calls made before listen()
MaxEarly == 1
\* items the caller hands to a menu, checklist or radiolist
MaxItems == 2
\* top-level shows of one list widget
MaxShows == 2
\* assignments to item.selected the caller makes
MaxWrites == 2
\* lines of the terminal
MaxLines == 12
\* build_whiptail_args calls on one widget
MaxBuilds == 2
\* run / listen calls on one widget
MaxRuns == 2

(***************************************************************************)
(* Program constants.                                                      *)
(***************************************************************************)
POSITIVE_RETURN_CODE == 0
NEGATIVE_RETURN_CODE == 1
ESC_RETURN_CODE == 255
DEFAULT_FORM_ITEM_PLACEHOLDER_LEN == 20
\* the height and width the demo gives its form
DemoHeight == 20
DemoWidth == 40

(***************************************************************************)
(* String helpers (Python str operations used by the code).                *)
(***************************************************************************)
Digits == <<"0", "1", "2", "3", "4", "5", "6", "7", "8", "9">>

RECURSIVE StrNat(_)
StrNat(n) == IF n < 10 THEN <<Digits[n + 1]>>
             ELSE StrNat(n \div 10) \o <<Digits[(n % 10) + 1]>>

\* str(n) of an int
Str(n) == IF n < 0 THEN <<"-">> \o StrNat(-n) ELSE StrNat(n)

\* n * c : the character c repeated n times
Repeat(c, n) == [i \in 1..n |-> c]

\* A str is a sequence of characters.  An ASCII character is the string of
\* that one character; a character outside ASCII is the string naming its
\* code point, U+ and four hexadecimal digits (U+00A0 is '\xa0', U+00E9 is
\* the letter e with an acute accent), so that no text of the model depends
\* on how the characters of this file are decoded.
\*
\* str.isspace() for one character, the test str.strip() applies.  The ASCII
\* ones: space, \t, \n, \r, \f, and, written as the characters themselves,
\* \x0b (\v), \x1c, \x1d, \x1e and \x1f.  The others: \x85, \xa0, \u1680,
\* \u2000 to \u200a, \u2028, \u2029, \u202f, \u205f and \u3000.
IsSpace(c) ==
    c \in {" ", "\t", "\n", "\r", "\f",
           "", "", "", "", "",
           "U+0085", "U+00A0", "U+1680",
           "U+2000", "U+2001", "U+2002", "U+2003", "U+2004", "U+2005",
           "U+2006", "U+2007", "U+2008", "U+2009", "U+200A",
           "U+2028", "U+2029", "U+202F", "U+205F", "U+3000"}

RECURSIVE LStrip(_)
LStrip(s) == IF s # <<>> /\ IsSpace(Head(s)) THEN LStrip(Tail(s)) ELSE s

RECURSIVE RStrip(_)
RStrip(s) == IF s # <<>> /\ IsSpace(s[Len(s)]) THEN RStrip(SubSeq(s, 1, Len(s) - 1)) ELSE s

\* str.strip()
Strip(s) == RStrip(LStrip(s))

\* itertools.chain.from_iterable over a sequence of tuples
RECURSIVE Flatten(_)
Flatten(ss) == IF ss = <<>> THEN <<>> ELSE Head(ss) \o Flatten(Tail(ss))

(***************************************************************************)
(* The caller's inputs: the widgets it constructs and what the user and    *)
(* the renderer can answer.                                                *)
(***************************************************************************)
\* validators the caller supplies: the default accepts everything, the
\* other one rejects any text holding a blank
Validator(id, text) ==
    CASE id = "any" -> TRUE
      [] id = "noblank" -> \A i \in 1..Len(text) : ~IsSpace(text[i])

ErrText == <<"e", "r", "r">>
MsgText == <<"m", "s", "g">>
SubmitLabel == <<"s", "u", "b", "m", "i", "t">>

\* the form of the demo, with short texts: a plain field with a validator
\* and a password field left at its default value
FormItems == <<
    [key |-> <<"k">>, name |-> <<"u">>, password |-> FALSE,
     value |-> <<"x">>, validator |-> "noblank", error_message |-> ErrText],
    [key |-> <<"p">>, name |-> <<"w">>, password |-> TRUE,
     value |-> Repeat(" ", DEFAULT_FORM_ITEM_PLACEHOLDER_LEN),
     validator |-> "any", error_message |-> ErrText] >>

NItems == Len(FormItems)

\* what the renderer can write on its error stream
Payloads == { <<>>, <<"k">>, <<"p">>, <<"y">>, <<" ", "y">>,
              <<"\f", "y", "U+2003">> }

\* exit codes of the child
ExitCodes == {0, 1, 2, 255}

ListKinds == {"menu", "checklist", "radiolist"}

TopKinds == {"msgbox", "yesno", "infobox", "textbox", "inputbox", "form",
             "menu", "checklist", "radiolist"}

NoResp == [returncode |-> -1, value |-> <<>>]
NoExc == [type |-> "none", what |-> "none", code |-> -1]

Response(rc, val) == [returncode |-> rc, value |-> val]

\* a widget object: the fields of WhiptailBase and of the subclasses that the
\* reactions read; item is the form item an input box edits (0: none)
Widget(kind, box, text, height, width, placeholder, validator, errmsg, item) ==
    [w |-> kind, box |-> box, text |-> text, height |-> height, width |-> width,
     placeholder |-> placeholder, validator |-> validator,
     error_message |-> errmsg, item |-> item]

\* WhiptailBase.get_default_list_height
GetDefaultListHeight(height) == height - 10

\* keys the caller gives its list items
ItemKeys == { <<"a">>, <<"b">> }

\* the key lists of the caller's items
KeyLists == UNION { [1..n -> ItemKeys] : n \in 0..MaxItems }

\* what the renderer can write for a list widget: nothing, a key, and
\* quoted keys as a checklist writes them: "a" "b" and "b" a"
ListPayloads == { <<>>, <<"a">>, <<"b">>,
                  <<"\"", "a", "\"", " ", "\"", "b", "\"">>,
                  <<"\"", "b", "\"", " ", "a", "\"">> }

\* WhiptailMenuItem.__init__ / WhiptailSelectItem.__init__: an item of the
\* caller; a menu item carries data, a select item the flag selected
ListItem(key) ==
    [key |-> key, description |-> <<"d">> \o key, data |-> <<"v">> \o key,
     selected |-> FALSE]

\* no list widget yet; writes counts the caller's assignments to selected
ListNone ==
    [obj |-> "none", items |-> <<>>, prefix |-> <<"-">>, description |-> FALSE,
     extra |-> <<>>, exc |-> "none", writes |-> 0]

\* the trailing arguments of a list widget, as __init__ builds them: the
\* list height, then per item its key, its label and, but for a menu, its
\* status
ListBoxArgs(kind, items, prefix, description, height) ==
    LET label(i) == IF description THEN prefix \o <<" ">> \o items[i].description
                    ELSE <<>>
        status(i) == IF items[i].selected THEN <<"O", "N">> ELSE <<"O", "F", "F">>
        row(i) == IF kind = "menu" THEN <<items[i].key, label(i)>>
                  ELSE <<items[i].key, label(i), status(i)>>
    IN  <<Str(GetDefaultListHeight(height))>>
          \o Flatten([i \in 1..Len(items) |-> row(i)])

\* ListConstruct, had it not validated the keys
ListConstructUnchecked(l, kind, description, height) ==
    [l EXCEPT !.obj = kind, !.description = description,
              !.extra = ListBoxArgs(kind, l.items, l.prefix, description, height)]

\* WhiptailMenuBox / WhiptailCheckListBox / WhiptailRadioListBox .__init__
ListConstruct(l, kind, description, height) ==
    IF Cardinality({l.items[i].key : i \in DOMAIN l.items}) # Len(l.items)
    THEN [l EXCEPT !.obj = "failed", !.exc = "Exception"]
    ELSE [l EXCEPT !.obj = kind, !.description = description,
                   !.extra = ListBoxArgs(kind, l.items, l.prefix, description, height)]

\* the list widget as the reactions see it: it refers to the caller's items
\* and holds the trailing arguments its constructor built
ListWidget(l, height, width) ==
    [w |-> l.obj, box |-> l.obj, text |-> MsgText, height |-> height,
     width |-> width, placeholder |-> <<>>, validator |-> "any",
     error_message |-> <<>>, item |-> 0, items |-> l.items, extra |-> l.extra]

\* the widget the caller constructs for each top-level kind
TopWidget(kind) ==
    CASE kind \in ListKinds -> ListWidget(lst, DemoHeight, DemoWidth)
      [] kind = "inputbox" ->
           Widget("inputbox", "inputbox", MsgText, DemoHeight, DemoWidth,
                  <<>>, "noblank", ErrText, 0)
      [] kind = "form" ->
           Widget("form", "menu", MsgText, DemoHeight, DemoWidth, <<>>, "any", <<>>, 0)
      [] OTHER ->
           Widget(kind, kind, MsgText, DemoHeight, DemoWidth, <<>>, "any", <<>>, 0)

(***************************************************************************)
(* The machine: the state the dialog code works on, as one record, so that *)
(* the code between two child processes is computed in one step.           *)
(***************************************************************************)
\* an entry of the history: what happened (e), to which widget (wid, w its
\* kind), in the show() call at which depth (d), with the exit code (rc), the
\* text (val), the hook, callback or box name (name), the trailing arguments
\* handed to the child (args) and the data a form hands over (data)
Ev(e, wid, d, rc, val, name, args, data) ==
    [e |-> e, w |-> wid.w, wid |-> wid, d |-> d, rc |-> rc, val |-> val,
     name |-> name, args |-> args, data |-> data]

Cur == [stack |-> stack, events |-> events, values |-> values,
        extra |-> box_extra_args, raised |-> raised, result |-> result]

Log(m, ev) == [m EXCEPT !.events = Append(@, ev)]

Depth(m) == Len(m.stack)

TopFrame(m) == m.stack[Len(m.stack)]

\* the top frame remembers where its reaction is and the value it handles
SetPc(m, pc, v) == [m EXCEPT !.stack[Len(m.stack)].pc = pc,
                             !.stack[Len(m.stack)].v = v]

NSpawns(evs) == Cardinality({i \in DOMAIN evs : evs[i].e = "spawn"})

\* FormBoxArgs, had it shown a password item's value as it is
FormBoxArgsUnmasked(vals, height) ==
    LET pairs == [i \in 1..NItems |->
                     <<FormItems[i].key, <<"-", " ">> \o vals[i]>>]
        menu == Append(pairs, << <<>>, <<"[">> \o SubmitLabel \o <<"]">> >>)
    IN  <<Str(GetDefaultListHeight(height))>> \o Flatten(menu)

\* WhiptailFormBox.__init__: the menu's trailing arguments, from the items'
\* current values
FormBoxArgs(vals, height) ==
    LET shown(i) == IF FormItems[i].password THEN Repeat("*", Len(vals[i]))
                    ELSE vals[i]
        pairs == [i \in 1..NItems |->
                     <<FormItems[i].key, <<"-", " ">> \o shown(i)>>]
        menu == Append(pairs, << <<>>, <<"[">> \o SubmitLabel \o <<"]">> >>)
    IN  <<Str(GetDefaultListHeight(height))>> \o Flatten(menu)

\* the trailing arguments a widget hands to the child
ExtraArgs(m, wid) ==
    CASE wid.w = "form" -> m.extra
      [] wid.w = "inputbox" -> <<wid.placeholder>>
      [] wid.w \in ListKinds -> wid.extra
      [] OTHER -> <<>>

\* WhiptailBase.run up to Popen: a new show() call starts and spawns its child
Run(m, wid) ==
    [m EXCEPT
       !.stack = Append(@, [wid |-> wid, pc |-> "run", resp |-> NoResp, v |-> <<>>]),
       !.events = Append(@, Ev("spawn", wid, Len(m.stack) + 1, -1, wid.text,
                               wid.box, ExtraArgs(m, wid),
                               IF wid.w = "form" THEN m.values
                               ELSE IF wid.w \in ListKinds THEN wid.items
                               ELSE <<>>))]

\* a callback of the widget whose frame is on top is called
Fire(m, name, val, data) ==
    Log(m, Ev("cb", TopFrame(m).wid, Depth(m), -1, val, name, <<>>, data))

\* an exception: nothing in the library catches one, so it leaves every show
Raise(m, type, what, code) ==
    [Log(m, Ev("raise", TopFrame(m).wid, Depth(m), code, <<>>, what, <<>>, <<>>))
       EXCEPT !.stack = <<>>,
              !.raised = [type |-> type, what |-> what, code |-> code]]

\* the message box an input box shows for a rejected value
ErrorMessageBox(wid) ==
    Widget("msgbox", "msgbox", wid.error_message, wid.height, wid.width,
           <<>>, "any", <<>>, 0)

\* the input box the form opens for item i
ItemInputBox(m, wid, i) ==
    Widget("inputbox", IF FormItems[i].password THEN "passwordbox" ELSE "inputbox",
           FormItems[i].key, wid.height, wid.width, Strip(m.values[i]),
           FormItems[i].validator, FormItems[i].error_message, i)

\* ItemWithKey, had it taken the first item for a key it does not find
ItemWithKeyOrFirst(key) ==
    LET hits == {i \in 1..NItems : FormItems[i].key = key}
    IN  IF hits = {} THEN 1 ELSE CHOOSE i \in hits : \A j \in hits : i <= j

\* the index of the first item with this key, 0 when there is none
ItemWithKey(key) ==
    LET hits == {i \in 1..NItems : FormItems[i].key = key}
    IN  IF hits = {} THEN 0 ELSE CHOOSE i \in hits : \A j \in hits : i <= j

\* MenuItemWithKey, had it taken the first item of the menu for any key of
\* the menu
MenuItemWithKeyFirstItem(items, key) ==
    LET hits == {i \in 1..Len(items) : items[i].key = key}
    IN  IF hits = {} THEN 0 ELSE 1

\* WhiptailMenuBox.on_positive_event_triggered: the index of the first item
\* with this key, 0 when there is none
MenuItemWithKey(items, key) ==
    LET hits == {i \in 1..Len(items) : items[i].key = key}
    IN  IF hits = {} THEN 0 ELSE CHOOSE i \in hits : \A j \in hits : i <= j

\* FindAll, had the pattern been "(.*)" : one match, from the first double
\* quote to the last
FindAllGreedy(s) ==
    LET qs == {i \in 1..Len(s) : s[i] = "\""}
    IN  IF Cardinality(qs) < 2 THEN <<>>
        ELSE LET o == CHOOSE i \in qs : \A j \in qs : i <= j
                 c == CHOOSE i \in qs : \A j \in qs : i >= j
             IN  <<SubSeq(s, o + 1, c - 1)>>

\* re.findall(r'"([^"]*)"', s): scanning from the left, each double quote
\* that has a later one opens a match that the next double quote closes;
\* the scan goes on behind the closing quote
RECURSIVE FindAll(_)
FindAll(s) ==
    LET qs == {i \in 1..Len(s) : s[i] = "\""}
    IN  IF Cardinality(qs) < 2 THEN <<>>
        ELSE LET o == CHOOSE i \in qs : \A j \in qs : i <= j
                 c == CHOOSE i \in qs \ {o} : \A j \in qs \ {o} : i <= j
             IN  <<SubSeq(s, o + 1, c - 1)>> \o FindAll(SubSeq(s, c + 1, Len(s)))

\* FormData, had it handed over the values as they are
FormDataRaw(vals) ==
    [i \in 1..NItems |-> [name |-> FormItems[i].name, value |-> vals[i]]]

\* the form data on_submit receives
FormData(vals) ==
    [i \in 1..NItems |-> [name |-> FormItems[i].name, value |-> Strip(vals[i])]]

RECURSIVE ShowReturn(_)
RECURSIVE Resume(_, _)

\* show() returns its response; its caller, if any, carries on
ShowReturn(m) ==
    LET f == TopFrame(m)
        m1 == [Log(m, Ev("return", f.wid, Depth(m), f.resp.returncode,
                         f.resp.value, "show", <<>>, <<>>))
                 EXCEPT !.stack = SubSeq(@, 1, Len(@) - 1)]
    IN  IF m1.stack = <<>> THEN [m1 EXCEPT !.result = f.resp]
        ELSE Resume(m1, f.resp)

\* FormRefresh, had it shown the menu again with the arguments it had
FormRefreshStale(m, pc) ==
    Run(SetPc(m, pc, TopFrame(m).v), TopFrame(m).wid)

\* WhiptailFormBox.refresh: rebuild the trailing arguments and show again
FormRefresh(m, pc) ==
    LET g == TopFrame(m)
        m1 == [m EXCEPT !.extra = FormBoxArgs(m.values, g.wid.height)]
    IN  Run(SetPc(m1, pc, g.v), g.wid)

\* Resume, had the input box given up after the error message: on_submit
\* with the rejected value and no second request
ResumeNoRetry(m, response) ==
    LET g == TopFrame(m)
    IN  CASE g.wid.w = "inputbox" /\ g.pc = "msgbox" ->
               ShowReturn(Fire(m, "on_submit", g.v, <<>>))
          [] g.wid.w = "inputbox" /\ g.pc = "refresh" ->
               ShowReturn(Fire(m, "on_submit", g.v, <<>>))
          [] g.wid.w = "form" /\ g.pc = "input" ->
               LET i == ItemWithKey(g.v)
                   m1 == IF response.returncode = POSITIVE_RETURN_CODE
                         THEN [m EXCEPT !.values[i] = response.value]
                         ELSE m
               IN  FormRefresh(m1, "refresh")
          [] g.wid.w = "form" /\ g.pc = "refresh" ->
               ShowReturn(m)

\* Resume, had the input box returned after its re-show without on_submit
ResumeNoSubmit(m, response) ==
    LET g == TopFrame(m)
    IN  CASE g.wid.w = "inputbox" /\ g.pc = "msgbox" ->
               Run(SetPc(m, "refresh", g.v), g.wid)
          [] g.wid.w = "inputbox" /\ g.pc = "refresh" ->
               ShowReturn(m)
          [] g.wid.w = "form" /\ g.pc = "input" ->
               LET i == ItemWithKey(g.v)
                   m1 == IF response.returncode = POSITIVE_RETURN_CODE
                         THEN [m EXCEPT !.values[i] = response.value]
                         ELSE m
               IN  FormRefresh(m1, "refresh")
          [] g.wid.w = "form" /\ g.pc = "refresh" ->
               ShowReturn(m)

\* Resume, had the form returned after an edit without showing its menu again
ResumeNoReshow(m, response) ==
    LET g == TopFrame(m)
    IN  CASE g.wid.w = "inputbox" /\ g.pc = "msgbox" ->
               Run(SetPc(m, "refresh", g.v), g.wid)
          [] g.wid.w = "inputbox" /\ g.pc = "refresh" ->
               ShowReturn(Fire(m, "on_submit", g.v, <<>>))
          [] g.wid.w = "form" /\ g.pc = "input" ->
               LET i == ItemWithKey(g.v)
                   m1 == IF response.returncode = POSITIVE_RETURN_CODE
                         THEN [m EXCEPT !.values[i] = response.value]
                         ELSE m
               IN  ShowReturn(m1)
          [] g.wid.w = "form" /\ g.pc = "refresh" ->
               ShowReturn(m)

\* the code after a nested show() returned response to the frame on top
Resume(m, response) ==
    LET g == TopFrame(m)
    IN  CASE g.wid.w = "inputbox" /\ g.pc = "msgbox" ->
               \* WhiptailInputBox.refresh
               Run(SetPc(m, "refresh", g.v), g.wid)
          [] g.wid.w = "inputbox" /\ g.pc = "refresh" ->
               ShowReturn(Fire(m, "on_submit", g.v, <<>>))
          [] g.wid.w = "form" /\ g.pc = "input" ->
               LET i == ItemWithKey(g.v)
                   m1 == IF response.returncode = POSITIVE_RETURN_CODE
                         THEN [m EXCEPT !.values[i] = response.value]
                         ELSE m
               IN  FormRefresh(m1, "refresh")
          [] g.wid.w = "form" /\ g.pc = "refresh" ->
               ShowReturn(m)

\* on_positive_event_triggered of the widget on top
OnPositive(m, value) ==
    LET f == TopFrame(m)
        w == f.wid.w
    IN  CASE w = "msgbox" -> ShowReturn(Fire(m, "on_ok", <<>>, <<>>))
          [] w = "yesno" -> ShowReturn(Fire(m, "on_yes", <<>>, <<>>))
          [] w = "infobox" -> ShowReturn(m)
          [] w = "textbox" -> ShowReturn(Fire(m, "on_ok", <<>>, <<>>))
          [] w = "inputbox" ->
               IF ~Validator(f.wid.validator, value)
               THEN Run(SetPc(m, "msgbox", value), ErrorMessageBox(f.wid))
               ELSE ShowReturn(Fire(m, "on_submit", value, <<>>))
          [] w = "form" ->
               IF value = <<>>
               THEN ShowReturn(Fire(m, "on_submit", <<>>, FormData(m.values)))
               ELSE IF ItemWithKey(value) # 0
               THEN Run(SetPc(m, "input", value),
                        ItemInputBox(m, f.wid, ItemWithKey(value)))
               ELSE Raise(m, "Exception", "unknown form key", -1)
          [] w = "menu" ->
               LET n == MenuItemWithKey(f.wid.items, value)
               IN  IF n # 0
                   THEN ShowReturn(Fire(m, "on_selected", f.wid.items[n].data, <<n>>))
                   ELSE Raise(m, "Exception", "no items found", -1)
          [] w = "checklist" ->
               ShowReturn(Fire(m, "on_submit", <<>>, FindAll(value)))
          [] w = "radiolist" ->
               ShowReturn(Fire(m, "on_submit", value, <<>>))

\* on_negative_event_triggered of the widget on top; the base class's takes
\* an argument that show does not pass
OnNegative(m) ==
    LET w == TopFrame(m).wid.w
    IN  CASE w = "yesno" -> ShowReturn(Fire(m, "on_no", <<>>, <<>>))
          [] w \in {"inputbox", "form"} -> ShowReturn(Fire(m, "on_cancel", <<>>, <<>>))
          [] w \in ListKinds -> ShowReturn(Fire(m, "on_cancel", <<>>, <<>>))
          [] OTHER -> Raise(m, "TypeError", "on_negative_event_triggered", -1)

\* OnEsc, had the base class's hook done nothing
OnEscSilent(m) ==
    LET w == TopFrame(m).wid.w
    IN  CASE w = "textbox" -> ShowReturn(Fire(m, "on_failed", <<>>, <<>>))
          [] OTHER -> ShowReturn(m)

\* OnEsc, had the text box not overridden the base class's hook
OnEscBase(m) ==
    Raise(m, "TypeError", "on_esc_event_triggered", -1)

\* on_esc_event_triggered of the widget on top
OnEsc(m) ==
    LET w == TopFrame(m).wid.w
    IN  CASE w = "textbox" -> ShowReturn(Fire(m, "on_failed", <<>>, <<>>))
          [] OTHER -> Raise(m, "TypeError", "on_esc_event_triggered", -1)

\* Dispatch, had show started the child again after an unexpected exit code
DispatchRetry(m, rc, value) ==
    LET w == TopFrame(m).wid
        d == Depth(m)
    IN  IF rc = POSITIVE_RETURN_CODE
        THEN OnPositive(Log(m, Ev("dispatch", w, d, rc, value, "positive", <<>>, <<>>)), value)
        ELSE IF rc = NEGATIVE_RETURN_CODE
        THEN OnNegative(Log(m, Ev("dispatch", w, d, rc, <<>>, "negative", <<>>, <<>>)))
        ELSE IF rc = ESC_RETURN_CODE
        THEN OnEsc(Log(m, Ev("dispatch", w, d, rc, <<>>, "esc", <<>>, <<>>)))
        ELSE Log(m, Ev("spawn", w, d, -1, w.text, w.box, ExtraArgs(m, w), <<>>))

\* Dispatch, had show taken every exit code other than 0 and 1 for escape
DispatchLenient(m, rc, value) ==
    LET w == TopFrame(m).wid
        d == Depth(m)
    IN  IF rc = POSITIVE_RETURN_CODE
        THEN OnPositive(Log(m, Ev("dispatch", w, d, rc, value, "positive", <<>>, <<>>)), value)
        ELSE IF rc = NEGATIVE_RETURN_CODE
        THEN OnNegative(Log(m, Ev("dispatch", w, d, rc, <<>>, "negative", <<>>, <<>>)))
        ELSE OnEsc(Log(m, Ev("dispatch", w, d, rc, <<>>, "esc", <<>>, <<>>)))

\* show(), from the child's exit on: classify the exit code and react
Dispatch(m, rc, value) ==
    LET w == TopFrame(m).wid
        d == Depth(m)
    IN  IF rc = POSITIVE_RETURN_CODE
        THEN OnPositive(Log(m, Ev("dispatch", w, d, rc, value, "positive", <<>>, <<>>)), value)
        ELSE IF rc = NEGATIVE_RETURN_CODE
        THEN OnNegative(Log(m, Ev("dispatch", w, d, rc, <<>>, "negative", <<>>, <<>>)))
        ELSE IF rc = ESC_RETURN_CODE
        THEN OnEsc(Log(m, Ev("dispatch", w, d, rc, <<>>, "esc", <<>>, <<>>)))
        ELSE Raise(m, "Exception", "unexpected Response return code", rc)

\* the child of the show() on top exits with rc, having written err
ChildExit(m, rc, err) ==
    LET f == TopFrame(m)
        m1 == [Log(m, Ev("exit", f.wid, Depth(m), rc, err, f.wid.box, <<>>, <<>>))
                 EXCEPT !.stack[Len(m.stack)].resp = Response(rc, err)]
    IN  Dispatch(m1, rc, err)

(***************************************************************************)
(* The dialog specification: the caller shows one widget; the renderer     *)
(* answers each child process.                                             *)
(***************************************************************************)
DialogInit ==
    /\ top \in TopKinds
    /\ phase = "idle"
    /\ stack = <<>>
    /\ events = <<>>
    /\ values = [i \in 1..NItems |-> FormItems[i].value]
    /\ box_extra_args = FormBoxArgs([i \in 1..NItems |-> FormItems[i].value], DemoHeight)
    /\ raised = NoExc
    /\ result = NoResp
    /\ gauge = [obj |-> "none"]
    /\ lst = IF top \in ListKinds
             THEN ListConstruct([ListNone EXCEPT
                                   !.items = <<ListItem(<<"a">>), ListItem(<<"b">>)>>],
                                top, TRUE, DemoHeight)
             ELSE ListNone
    /\ base = [obj |-> "none", in |-> <<>>]

Install(m) ==
    /\ stack' = m.stack
    /\ events' = m.events
    /\ values' = m.values
    /\ box_extra_args' = m.extra
    /\ raised' = m.raised
    /\ result' = m.result
    /\ phase' = IF m.raised # NoExc THEN "raised"
                ELSE IF m.stack = <<>> THEN "returned" ELSE "running"
    /\ UNCHANGED <<top, gauge, lst, base>>

\* the caller calls show() on its widget
Show ==
    /\ phase = "idle"
    /\ Install(Run(Cur, TopWidget(top)))

\* the innermost show() is of a widget of this kind and its child may exit
\* with rc and err: the renderer writes a result only with exit code 0
Waiting(kind, rc, err) ==
    /\ phase = "running"
    /\ TopFrame(Cur).wid.w = kind
    /\ rc # POSITIVE_RETURN_CODE => err = <<>>
    /\ NSpawns(ChildExit(Cur, rc, err).events) <= MaxSpawns

\* the child of the innermost show() exits: one action per widget class
MessageBoxCompletes ==
    \E rc \in ExitCodes, err \in Payloads :
        /\ Waiting("msgbox", rc, err)
        /\ Install(ChildExit(Cur, rc, err))

YesNoCompletes ==
    \E rc \in ExitCodes, err \in Payloads :
        /\ Waiting("yesno", rc, err)
        /\ Install(ChildExit(Cur, rc, err))

InfoBoxCompletes ==
    \E rc \in ExitCodes, err \in Payloads :
        /\ Waiting("infobox", rc, err)
        /\ Install(ChildExit(Cur, rc, err))

TextBoxCompletes ==
    \E rc \in ExitCodes, err \in Payloads :
        /\ Waiting("textbox", rc, err)
        /\ Install(ChildExit(Cur, rc, err))

InputBoxCompletes ==
    \E rc \in ExitCodes, err \in Payloads :
        /\ Waiting("inputbox", rc, err)
        /\ Install(ChildExit(Cur, rc, err))

FormBoxCompletes ==
    \E rc \in ExitCodes, err \in Payloads :
        /\ Waiting("form", rc, err)
        /\ Install(ChildExit(Cur, rc, err))

MenuBoxCompletes ==
    \E rc \in ExitCodes, err \in ListPayloads :
        /\ Waiting("menu", rc, err)
        /\ Install(ChildExit(Cur, rc, err))

CheckListBoxCompletes ==
    \E rc \in ExitCodes, err \in ListPayloads :
        /\ Waiting("checklist", rc, err)
        /\ Install(ChildExit(Cur, rc, err))

RadioListBoxCompletes ==
    \E rc \in ExitCodes, err \in ListPayloads :
        /\ Waiting("radiolist", rc, err)
        /\ Install(ChildExit(Cur, rc, err))

DialogNext ==
    \/ Show
    \/ MessageBoxCompletes
    \/ YesNoCompletes
    \/ InfoBoxCompletes
    \/ TextBoxCompletes
    \/ InputBoxCompletes
    \/ FormBoxCompletes
    \/ MenuBoxCompletes
    \/ CheckListBoxCompletes
    \/ RadioListBoxCompletes

Spec == DialogInit /\ [][DialogNext]_vars

(***************************************************************************)
(* The claims about the dialog protocol, checked under Spec.               *)
(***************************************************************************)
\* the first event after index i of kind e in the show() call at depth d, 0
\* when there is none
NextAt(i, e, d) ==
    LET js == {j \in (i + 1)..Len(events) : events[j].e = e /\ events[j].d = d}
    IN  IF js = {} THEN 0 ELSE CHOOSE j \in js : \A k \in js : j <= k

IsEvent(i, e, d, name) ==
    /\ i \in DOMAIN events
    /\ events[i].e = e
    /\ events[i].d = d
    /\ events[i].name = name

(* C1: every child exit is followed at once, in the same show() call, by   *)
(* exactly one outcome: exit code 0 by the positive reaction with the      *)
(* captured payload, 1 by the negative reaction, 255 by the escape         *)
(* reaction, and any other code by no reaction and an exception carrying   *)
(* the code, which ends the top-level show; no reaction happens without a  *)
(* child exit right before it.                                             *)
ExitClassifiedOnce ==
    /\ \A i \in DOMAIN events :
         events[i].e = "exit" =>
           /\ i < Len(events)
           /\ events[i + 1].d = events[i].d
           /\ events[i + 1].wid = events[i].wid
           /\ events[i].rc = 0 =>
                /\ IsEvent(i + 1, "dispatch", events[i].d, "positive")
                /\ events[i + 1].val = events[i].val
           /\ events[i].rc = 1 => IsEvent(i + 1, "dispatch", events[i].d, "negative")
           /\ events[i].rc = 255 => IsEvent(i + 1, "dispatch", events[i].d, "esc")
           /\ events[i].rc \notin {0, 1, 255} =>
                /\ events[i + 1].e = "raise"
                /\ events[i + 1].rc = events[i].rc
                /\ i + 1 = Len(events)
                /\ phase = "raised"
                /\ raised = [type |-> "Exception",
                             what |-> "unexpected Response return code",
                             code |-> events[i].rc]
    /\ \A j \in DOMAIN events :
         events[j].e = "dispatch" => j > 1 /\ events[j - 1].e = "exit"

\* an exit with a payload was reacted to and a later exit code 2 was raised
UnexpectedCodeRaised ==
    /\ raised.code = 2
    /\ \E i \in DOMAIN events :
         events[i].e = "exit" /\ events[i].rc = 0 /\ events[i].val # <<>>

(* C2: in every show of a message, yes/no, info or text box the exit is    *)
(* routed to the documented callback, fired once, and the show returns:    *)
(* message box 0 -> on_ok; yes/no 0 -> on_yes, 1 -> on_no; info box 0 ->   *)
(* no callback; text box 0 -> on_ok, 255 -> on_failed.                     *)
SimpleCallback(w, rc) ==
    CASE w = "msgbox" /\ rc = 0 -> "on_ok"
      [] w = "yesno" /\ rc = 0 -> "on_yes"
      [] w = "yesno" /\ rc = 1 -> "on_no"
      [] w = "infobox" /\ rc = 0 -> "nothing"
      [] w = "textbox" /\ rc = 0 -> "on_ok"
      [] w = "textbox" /\ rc = 255 -> "on_failed"
      [] OTHER -> "undocumented"

SimpleWidgetsRoute ==
    \A s \in DOMAIN events :
      (/\ events[s].e = "spawn"
       /\ events[s].w \in {"msgbox", "yesno", "infobox", "textbox"}
       /\ s < Len(events)
       /\ SimpleCallback(events[s].w, events[s + 1].rc) # "undocumented") =>
          LET d == events[s].d
              cb == SimpleCallback(events[s].w, events[s + 1].rc)
              r == IF cb = "nothing" THEN s + 3 ELSE s + 4
          IN  /\ events[s + 1].e = "exit"
              /\ events[s + 2].e = "dispatch"
              /\ cb # "nothing" =>
                   /\ IsEvent(s + 3, "cb", d, cb)
                   /\ events[s + 3].wid = events[s].wid
              /\ IsEvent(r, "return", d, "show")
              /\ events[r].rc = events[s + 1].rc
              /\ d = 1 => phase = "returned" /\ raised = NoExc /\ Len(events) = r

\* a text box ended with escape and on_failed was called
TextBoxEscapeRouted ==
    /\ top = "textbox"
    /\ phase = "returned"
    /\ result.returncode = 255
    /\ \E i \in DOMAIN events : events[i].e = "cb" /\ events[i].name = "on_failed"

(* C3: when an input box show ends positive with a value v its validator   *)
(* rejects, the next thing is a message box with error_message shown one   *)
(* level deeper; once that show has returned, the same input request is    *)
(* shown again; once that show has returned, on_submit(v) of the input box *)
(* is called with the rejected v and the show returns; on_submit of this   *)
(* show is not called before.                                              *)
RejectedThenRetryThenSubmit ==
    \A i \in DOMAIN events :
      (/\ events[i].e = "dispatch"
       /\ events[i].w = "inputbox"
       /\ events[i].name = "positive"
       /\ ~Validator(events[i].wid.validator, events[i].val)) =>
          LET d == events[i].d
              v == events[i].val
              wid == events[i].wid
              j == NextAt(i + 1, "return", d + 1)
              k == IF j = 0 THEN 0 ELSE NextAt(j + 1, "return", d + 1)
              last == IF k # 0 THEN k ELSE Len(events)
          IN  /\ IsEvent(i + 1, "spawn", d + 1, "msgbox")
              /\ events[i + 1].val = wid.error_message
              /\ j # 0 =>
                   /\ events[j].w = "msgbox"
                   /\ IsEvent(j + 1, "spawn", d + 1, wid.box)
                   /\ events[j + 1].wid = wid
                   /\ events[j + 1].val = events[i - 2].val
                   /\ events[j + 1].args = events[i - 2].args
              /\ k # 0 =>
                   /\ events[k].wid = wid
                   /\ IsEvent(k + 1, "cb", d, "on_submit")
                   /\ events[k + 1].val = v
                   /\ events[k + 1].wid = wid
                   /\ IsEvent(k + 2, "return", d, "show")
              /\ \A n \in (i + 1)..last : events[n].d > d \/ events[n].e = "raise"

\* a top-level input box: a rejected value, the error box, a second prompt
\* answered with an accepted value, and on_submit of the rejected value last
RejectedValueSubmitted ==
    /\ top = "inputbox"
    /\ phase = "returned"
    /\ \E i \in DOMAIN events :
         /\ events[i].e = "cb" /\ events[i].name = "on_submit" /\ events[i].d = 1
         /\ ~Validator(events[i].wid.validator, events[i].val)
         /\ events[i - 1].e = "return" /\ events[i - 1].d = 2
         /\ events[i - 1].rc = 0
         /\ Validator(events[i].wid.validator, events[i - 1].val)

(* C4: when the form menu ends positive with the key of an item, an input  *)
(* box for that item is shown (its text the key, its initial text the      *)
(* item's trimmed value); when that show returns a positive Response with  *)
(* value y the item's value is y, otherwise the values are as before; the  *)
(* menu is then shown again with trailing arguments built from the values. *)
FormEditUpdatesAndReshows ==
    \A i \in DOMAIN events :
      (/\ events[i].e = "dispatch"
       /\ events[i].w = "form"
       /\ events[i].name = "positive"
       /\ ItemWithKey(events[i].val) # 0) =>
          LET d == events[i].d
              n == ItemWithKey(events[i].val)
              before == events[i - 2].data
              j == NextAt(i + 1, "return", d + 1)
              after == IF events[j].rc = 0
                       THEN [before EXCEPT ![n] = events[j].val]
                       ELSE before
          IN  /\ events[i - 2].e = "spawn" /\ events[i - 2].w = "form"
              /\ IsEvent(i + 1, "spawn", d + 1,
                         IF FormItems[n].password THEN "passwordbox" ELSE "inputbox")
              /\ events[i + 1].wid.item = n
              /\ events[i + 1].val = FormItems[n].key
              /\ events[i + 1].args = <<Strip(before[n])>>
              /\ j # 0 =>
                   /\ events[j].w = "inputbox"
                   /\ IsEvent(j + 1, "spawn", d + 1, "menu")
                   /\ events[j + 1].w = "form"
                   /\ events[j + 1].data = after
                   /\ events[j + 1].args = FormBoxArgs(after, events[i].wid.height)

\* an edit of the first item returned a form feed, y and an em space; the
\* menu was shown again with that value, the user chose the item once more
\* and the edit dialog offered y alone
FormItemEdited ==
    \E j \in DOMAIN events :
      /\ events[j].e = "spawn" /\ events[j].w = "form"
      /\ events[j].data[1] = <<"\f", "y", "U+2003">>
      /\ events[j - 1].e = "return" /\ events[j - 1].rc = 0
      /\ events[j - 1].val = <<"\f", "y", "U+2003">>
      /\ j + 3 <= Len(events)
      /\ events[j + 2].e = "dispatch" /\ events[j + 2].name = "positive"
      /\ events[j + 2].val = <<"k">>
      /\ events[j + 3].e = "spawn" /\ events[j + 3].w = "inputbox"
      /\ events[j + 3].args = << <<"y">> >>

(* C5: when the form menu ends positive with the empty key, on_submit is   *)
(* called with one record per item, in item order, holding the item's name *)
(* and its current value without the blanks around it; after that nothing  *)
(* is shown, the active shows only return, and the values are unchanged.   *)
\* t is s without the blanks around it
IsTrimOf(t, s) ==
    /\ t # <<>> => ~IsSpace(t[1]) /\ ~IsSpace(t[Len(t)])
    /\ \E a \in 0..Len(s) :
         /\ a + Len(t) <= Len(s)
         /\ \A x \in 1..Len(s) :
              IF x > a /\ x <= a + Len(t) THEN s[x] = t[x - a] ELSE IsSpace(s[x])

FormSubmitHandsOverTrimmed ==
    \A i \in DOMAIN events :
      (/\ events[i].e = "dispatch"
       /\ events[i].w = "form"
       /\ events[i].name = "positive"
       /\ events[i].val = <<>>) =>
          LET d == events[i].d
              shown == events[i - 2].data
          IN  /\ events[i - 2].e = "spawn" /\ events[i - 2].w = "form"
              /\ IsEvent(i + 1, "cb", d, "on_submit")
              /\ events[i + 1].w = "form"
              /\ Len(events[i + 1].data) = NItems
              /\ \A n \in 1..NItems :
                   /\ events[i + 1].data[n].name = FormItems[n].name
                   /\ IsTrimOf(events[i + 1].data[n].value, shown[n])
              /\ \A j \in (i + 2)..Len(events) : events[j].e = "return"
              /\ values = shown
              /\ phase = "returned"

\* a form was submitted whose first item holds y between a form feed and an
\* em space and whose second item holds spaces only: y and the empty text
\* were handed over
FormSubmittedUntrimmedValue ==
    /\ top = "form"
    /\ phase = "returned"
    /\ values[1] = <<"\f", "y", "U+2003">>
    /\ values[2] = Repeat(" ", DEFAULT_FORM_ITEM_PLACEHOLDER_LEN)
    /\ \E i \in DOMAIN events :
         /\ events[i].e = "cb" /\ events[i].w = "form" /\ events[i].name = "on_submit"
         /\ events[i].data[1].value = <<"y">>
         /\ events[i].data[2].value = <<>>

(* C6: in a top-level form show, as long as the show runs neither          *)
(* on_submit nor on_cancel of the form has been called and a menu or one   *)
(* of its edit dialogs is displayed; once one of the two is called nothing *)
(* is displayed any more; when the show has returned exactly one of them   *)
(* has been called, once.                                                  *)
FormCallbacks == {i \in DOMAIN events : events[i].e = "cb" /\ events[i].w = "form"}

FormLoopEndsOnce ==
    top = "form" =>
      /\ Cardinality(FormCallbacks) <= 1
      /\ \A i \in FormCallbacks :
           /\ events[i].name \in {"on_submit", "on_cancel"}
           /\ \A j \in DOMAIN events : j > i => events[j].e = "return"
      /\ phase = "running" => FormCallbacks = {} /\ events[Len(events)].e = "spawn"
      /\ phase = "returned" => Cardinality(FormCallbacks) = 1

\* the form was cancelled after two edits and the show returned
FormCancelledAfterEdits ==
    /\ top = "form"
    /\ phase = "returned"
    /\ Cardinality({i \in DOMAIN events : events[i].e = "spawn" /\ events[i].w = "form"}) = 3
    /\ \E i \in FormCallbacks : events[i].name = "on_cancel"


(* C13: a positive outcome whose payload names no item raises at once: for *)
(* a menu any payload that is no item's key, for a form any payload that   *)
(* is neither empty nor an item's key.  No callback is called and no       *)
(* dialog is shown after it, and no form value has changed.                *)
UnknownKeyRaises ==
    \A i \in DOMAIN events :
      (/\ events[i].e = "dispatch" /\ events[i].name = "positive"
       /\ \/ /\ events[i].w = "menu"
             /\ \A n \in DOMAIN events[i].wid.items :
                   events[i].wid.items[n].key # events[i].val
          \/ /\ events[i].w = "form"
             /\ events[i].val # <<>>
             /\ \A n \in 1..NItems : FormItems[n].key # events[i].val) =>
         /\ Len(events) = i + 1
         /\ events[i + 1].e = "raise"
         /\ phase = "raised"
         /\ raised.type = "Exception"
         /\ events[i].w = "form" =>
              \E k \in 1..i :
                 /\ events[k].e = "spawn" /\ events[k].w = "form"
                 /\ \A j \in (k + 1)..i : events[j].e # "spawn"
                 /\ values = events[k].data

\* a form whose first item was edited got a payload that is no key of it,
\* and the show raised
FormUnknownKeyAfterEdit ==
    /\ top = "form"
    /\ phase = "raised"
    /\ raised.what = "unknown form key"
    /\ values[1] = <<"y">>
    /\ events[Len(events) - 1].e = "dispatch"
    /\ events[Len(events) - 1].val = <<" ", "y">>

(* C16: a top-level input box show in which a value was rejected never     *)
(* raises, however the error message box and the repeated request are      *)
(* dismissed with the exit codes 0, 1 and 255.                             *)
RejectedInputNeverRaises ==
    (/\ top = "inputbox"
     /\ \E i \in DOMAIN events : events[i].e = "spawn" /\ events[i].w = "msgbox"
     /\ \A i \in DOMAIN events :
          events[i].e = "exit" =>
             events[i].rc \in {POSITIVE_RETURN_CODE, NEGATIVE_RETURN_CODE,
                               ESC_RETURN_CODE}) =>
       phase # "raised"

(* C17: in a top-level input box show there is one error message box per   *)
(* rejected value and, once that box is left, one more request; as long as *)
(* the show runs every value entered so far was rejected; the show has     *)
(* returned exactly when the latest request ended with an accepted value   *)
(* or with cancel, all requests before it having ended with a rejected     *)
(* value.  Apart from that the show ends only by the exception of an exit  *)
(* code for which the dialog has no reaction.                              *)
InputExits == {i \in DOMAIN events : events[i].e = "exit" /\ events[i].w = "inputbox"}

InputRejected(i) ==
    /\ events[i].rc = POSITIVE_RETURN_CODE
    /\ ~Validator(events[i].wid.validator, events[i].val)

InputEnds(i) ==
    \/ events[i].rc = NEGATIVE_RETURN_CODE
    \/ /\ events[i].rc = POSITIVE_RETURN_CODE
       /\ Validator(events[i].wid.validator, events[i].val)

InputLoopLeftByAcceptOrCancel ==
    top = "inputbox" =>
      LET rejected == {i \in InputExits : InputRejected(i)}
          messages == {i \in DOMAIN events :
                          events[i].e = "spawn" /\ events[i].w = "msgbox"}
          requests == {i \in DOMAIN events :
                          events[i].e = "spawn" /\ events[i].w = "inputbox"}
      IN  /\ Cardinality(messages) = Cardinality(rejected)
          /\ \A i \in rejected : events[i + 2].e = "spawn" /\ events[i + 2].w = "msgbox"
          /\ phase = "running" =>
               /\ InputExits = rejected
               /\ events[Len(events)].e = "spawn"
               /\ events[Len(events)].w = "inputbox" =>
                    Cardinality(requests) = Cardinality(rejected) + 1
          /\ \A i \in InputExits :
               InputEnds(i) =>
                  /\ phase = "returned"
                  /\ \A j \in InputExits \ {i} : j < i /\ InputRejected(j)
                  /\ \A j \in DOMAIN events : j > i => events[j].e # "spawn"
          /\ phase = "returned" =>
               /\ \E i \in InputExits : InputEnds(i)
               /\ Cardinality(requests) = Cardinality(rejected) + 1
          /\ phase = "raised" =>
               \E k \in DOMAIN events :
                  /\ events[k].e = "exit"
                  /\ \A j \in DOMAIN events : events[j].e = "exit" => j <= k
                  /\ \/ /\ events[k].w = "msgbox"
                        /\ events[k].rc # POSITIVE_RETURN_CODE
                     \/ /\ events[k].w = "inputbox"
                        /\ events[k].rc \notin {POSITIVE_RETURN_CODE,
                                                 NEGATIVE_RETURN_CODE}

\* the show returned after two rejected values and a third, accepted one
InputAcceptedAfterTwoRejections ==
    /\ top = "inputbox"
    /\ phase = "returned"
    /\ Cardinality({i \in InputExits : InputRejected(i)}) = 2
    /\ \E i \in InputExits : events[i].rc = POSITIVE_RETURN_CODE /\ InputEnds(i)
    /\ NSpawns(events) = 5

(* C22: each show() call spawns one child and reacts once to its exit: a   *)
(* child's exit follows its spawn and is followed by one dispatch or, for  *)
(* an unexpected code, by the raise that ends everything; two spawns at    *)
(* the same call depth are separated by the return of the first show, so   *)
(* every further child belongs to a further, nested show() call.           *)
CountBefore(i, e) ==
    Cardinality({j \in 1..(i - 1) : events[j].e = e})

OneChildPerShow ==
    /\ \A i \in DOMAIN events :
         events[i].e = "exit" =>
            /\ i > 1 /\ i < Len(events)
            /\ events[i - 1].e = "spawn"
            /\ events[i - 1].wid = events[i].wid
            /\ events[i - 1].d = events[i].d
            /\ events[i + 1].d = events[i].d
            /\ IF events[i].rc \in {POSITIVE_RETURN_CODE, NEGATIVE_RETURN_CODE,
                                    ESC_RETURN_CODE}
               THEN events[i + 1].e = "dispatch"
               ELSE events[i + 1].e = "raise"
    /\ \A i \in DOMAIN events :
         events[i].e = "spawn" =>
            /\ i < Len(events) => events[i + 1].e = "exit"
            /\ events[i].d = 1 + CountBefore(i, "spawn") - CountBefore(i, "return")
    /\ \A i, j \in DOMAIN events :
         (/\ i < j
          /\ events[i].e = "spawn" /\ events[j].e = "spawn"
          /\ events[i].d = events[j].d) =>
            \E k \in (i + 1)..(j - 1) :
               events[k].e = "return" /\ events[k].d = events[i].d
    /\ \A i \in DOMAIN events : events[i].e = "raise" => i = Len(events)
    /\ phase # "raised" =>
         NSpawns(events) = CountBefore(Len(events) + 1, "return") + Len(stack)

\* an input box was shown again after a rejected value, the second request
\* ended with an unexpected exit code, and no further child was started
UnexpectedExitNotRetried ==
    /\ top = "inputbox"
    /\ phase = "raised"
    /\ raised.code = 2
    /\ NSpawns(events) = 3
    /\ events[Len(events)].e = "raise"
    /\ events[Len(events)].d = 2

(* C23: when an outcome is reached for which the widget has no reaction    *)
(* (escape for every widget but the text box; negative for the message,    *)
(* info and text box), show raises: the raise follows the dispatch at      *)
(* once, no callback is called, nothing is shown and show does not return. *)
HasReaction(w, outcome) ==
    CASE outcome = "positive" -> TRUE
      [] outcome = "negative" ->
           w \in {"yesno", "inputbox", "form", "menu", "checklist", "radiolist"}
      [] outcome = "esc" -> w = "textbox"

MissingReactionRaises ==
    \A i \in DOMAIN events :
      (events[i].e = "dispatch" /\ ~HasReaction(events[i].w, events[i].name)) =>
         /\ Len(events) = i + 1
         /\ events[i + 1].e = "raise"
         /\ events[i + 1].wid = events[i].wid
         /\ phase = "raised"
         /\ raised.type # "none"
         /\ result = NoResp
         /\ stack = <<>>

\* the input box a form opened for an item was left with Escape
FormEditEscaped ==
    /\ top = "form"
    /\ phase = "raised"
    /\ raised.what = "on_esc_event_triggered"
    /\ events[Len(events) - 1].e = "dispatch"
    /\ events[Len(events) - 1].w = "inputbox"
    /\ events[Len(events) - 1].d = 2

(* C24: each value of a form is its initial value or a value its item's    *)
(* validator accepts.                                                      *)
FormValuesAccepted ==
    top = "form" =>
      \A i \in 1..NItems :
         \/ values[i] = FormItems[i].value
         \/ Validator(FormItems[i].validator, values[i])

(* C25: when a top-level input box show has returned and its latest        *)
(* request ended with an accepted value, the Response of the show carries  *)
(* that value and the last on_submit call got that value.                  *)
AcceptedValueDeliveredLast ==
    (top = "inputbox" /\ phase = "returned") =>
      \A k \in InputExits :
         (/\ \A j \in InputExits : j <= k
          /\ events[k].rc = POSITIVE_RETURN_CODE
          /\ InputEnds(k)) =>
            /\ result = Response(POSITIVE_RETURN_CODE, events[k].val)
            /\ \A c \in DOMAIN events :
                 (/\ events[c].e = "cb" /\ events[c].name = "on_submit"
                  /\ \A j \in DOMAIN events :
                        (events[j].e = "cb" /\ events[j].name = "on_submit") => j <= c) =>
                    events[c].val = events[k].val

(* C26: in a top-level input box show in which on_cancel was called, it    *)
(* was called once and on_submit was not called.                           *)
CancelExcludesSubmit ==
    LET cancels == {i \in DOMAIN events :
                       events[i].e = "cb" /\ events[i].name = "on_cancel"}
        submits == {i \in DOMAIN events :
                       events[i].e = "cb" /\ events[i].name = "on_submit"}
    IN  (top = "inputbox" /\ cancels # {}) =>
           /\ Cardinality(cancels) = 1
           /\ submits = {}

(* C29: every menu a form shows has the trailing arguments: the list       *)
(* height; per item, in item order, its key and "- " followed by its       *)
(* current value, or for a password item by as many * as that value is     *)
(* long; and last the empty key with the submit label in brackets.         *)
FormMenuShape ==
    \A i \in DOMAIN events :
      (events[i].e = "spawn" /\ events[i].w = "form") =>
         LET a == events[i].args
             v == events[i].data
         IN  /\ Len(a) = 1 + 2 * NItems + 2
             /\ a[1] = Str(events[i].wid.height - 10)
             /\ \A n \in 1..NItems :
                  /\ a[2 * n] = FormItems[n].key
                  /\ Len(a[2 * n + 1]) = 2 + Len(v[n])
                  /\ SubSeq(a[2 * n + 1], 1, 2) = <<"-", " ">>
                  /\ \A c \in 1..Len(v[n]) :
                       a[2 * n + 1][2 + c] = IF FormItems[n].password THEN "*"
                                             ELSE v[n][c]
             /\ a[2 * NItems + 2] = <<>>
             /\ a[2 * NItems + 3] = <<"[", "s", "u", "b", "m", "i", "t", "]">>

\* the form showed its menu after the password item was set to " y": two *
FormShownWithEditedPassword ==
    /\ top = "form"
    /\ \E i \in DOMAIN events :
         /\ events[i].e = "spawn" /\ events[i].w = "form"
         /\ events[i].data[2] = <<" ", "y">>
         /\ events[i].args[5] = <<"-", " ", "*", "*">>

(***************************************************************************)
(* The gauge session.  The child's input stream is a buffered text stream: *)
(* write() puts the text in the buffer, flush() hands the buffer to the    *)
(* pipe and fails with BrokenPipeError, keeping the buffer, once the child *)
(* has exited; close() flushes first and closes in any case; write() and   *)
(* flush() on a closed stream fail with ValueError.  Popen.communicate()   *)
(* keeps two marks on the process object: _communication_started, set when *)
(* a communicate() call comes back (also with an exception), and           *)
(* _fileobj2output, the store of what was read from the child's error      *)
(* stream, created by a call that finds _communication_started unset.      *)
(* communicate() is a sequence of statements on these marks and on the two *)
(* streams, and the two flows that can be in start, the owning flow ("o")  *)
(* and the Thread ("t"), interleave statement by statement.                *)
(***************************************************************************)
\* percents the caller passes to the constructor and to update_percent
GaugePercents == {-1, 42, 43, 101}

\* exit codes of the gauge's child
GaugeExitCodes == {0, 255}

\* texts the gauge's child writes on its error stream before it exits
GaugeErrTexts == { <<>>, <<"b", "o", "o", "m">> }

\* no gauge object yet
GaugeNone ==
    [obj |-> "none", percent |-> 0, extra |-> <<>>, process |-> "none",
     returncode |-> -1, stdin |-> "none", buffer |-> <<>>, pipe |-> <<>>,
     thread |-> "none", started |-> FALSE, dict |-> "none",
     lists |-> [o |-> <<>>, t |-> <<>>], ref |-> [o |-> "none", t |-> "none"],
     chunk |-> [o |-> <<>>, t |-> <<>>],
     stderr |-> "none", errpipe |-> <<>>, owner |-> "idle",
     outcome |-> NoResp, calls |-> <<>>]

\* an entry of the history of the owning flow's calls: the method, its
\* argument, the exception it raised ("none": it returned) and the state of
\* the process and of the input stream as the call leaves them
Call(g, op, arg, exc) ==
    [op |-> op, arg |-> arg, exc |-> exc, process |-> g.process, stdin |-> g.stdin]

Called(g, op, arg, exc) == [g EXCEPT !.calls = Append(@, Call(g, op, arg, exc))]

\* f"{percent}\n"
PercentLine(percent) == Str(percent) \o <<"\n">>

\* WhiptailGaugeBox.__init__
GaugeConstruct(g, percent) ==
    IF percent > 100
    THEN Called(g, "__init__", percent, "Exception")
    ELSE Called([g EXCEPT !.obj = "gauge", !.percent = percent,
                          !.extra = <<Str(percent)>>, !.thread = "none"],
                "__init__", percent, "none")

\* WhiptailGaugeBox.listen: the child is spawned with a pipe as its input
\* stream; the Thread object is created and never started
GaugeListen(g) ==
    Called([g EXCEPT !.process = "running", !.stdin = "open", !.buffer = <<>>,
                     !.pipe = <<>>, !.stderr = "open", !.errpipe = <<>>,
                     !.thread = "created"],
           "listen", 0, "none")

\* UpdatePercent, had it checked the upper limit only, as __init__ does
UpdatePercentUpperOnly(g, percent) ==
    IF percent > 100
    THEN Called(g, "update_percent", percent, "Exception")
    ELSE LET g1 == [g EXCEPT !.percent = percent]
         IN  IF g.process = "none"
             THEN Called(g1, "update_percent", percent, "AttributeError")
             ELSE IF g.stdin = "closed"
             THEN Called(g1, "update_percent", percent, "ValueError")
             ELSE [g1 EXCEPT !.buffer = @ \o PercentLine(percent),
                             !.owner = "in_update"]

\* WhiptailGaugeBox.update_percent up to the flush: the check, the
\* assignment and stdin.write, which puts the line in the buffer
UpdatePercent(g, percent) ==
    IF percent > 100 \/ percent < 0
    THEN Called(g, "update_percent", percent, "Exception")
    ELSE LET g1 == [g EXCEPT !.percent = percent]
         IN  IF g.process = "none"
             THEN Called(g1, "update_percent", percent, "AttributeError")
             ELSE IF g.stdin = "closed"
             THEN Called(g1, "update_percent", percent, "ValueError")
             ELSE [g1 EXCEPT !.buffer = @ \o PercentLine(percent),
                             !.owner = "in_update"]

\* UpdateFlush, had update_percent returned after the write
UpdateFlushSkipped(g) ==
    Called([g EXCEPT !.owner = "idle"], "update_percent", g.percent, "none")

\* WhiptailGaugeBox.update_percent from the flush on: stdin.flush(), which
\* has nothing to hand over when the second flow flushed the line before
UpdateFlush(g) ==
    LET g1 == [g EXCEPT !.owner = "idle"]
    IN  IF g.stdin = "closed"
        THEN Called(g1, "update_percent", g.percent, "ValueError")
        ELSE IF g.process = "exited" /\ g.buffer # <<>>
        THEN Called(g1, "update_percent", g.percent, "BrokenPipeError")
        ELSE Called([g1 EXCEPT !.pipe = @ \o g.buffer, !.buffer = <<>>],
                    "update_percent", g.percent, "none")

\* WhiptailGaugeBox.terminate: self.process.stdin.close()
Terminate(g) ==
    IF g.process = "none"
    THEN Called(g, "terminate", 0, "AttributeError")
    ELSE IF g.stdin = "closed"
    THEN Called(g, "terminate", 0, "none")
    ELSE IF g.buffer # <<>> /\ g.process = "exited"
    THEN Called([g EXCEPT !.stdin = "closed", !.buffer = <<>>],
                "terminate", 0, "BrokenPipeError")
    ELSE Called([g EXCEPT !.stdin = "closed", !.pipe = @ \o g.buffer,
                          !.buffer = <<>>],
                "terminate", 0, "none")

\* the positions of a flow inside communicate(), in statement order
CommunicatePcs ==
    {"flush", "close", "test", "create", "create2", "lookup", "regtest",
     "register", "select", "append", "eof", "append_eof", "wait"}

\* the position of flow f
Pc(g, f) == IF f = "o" THEN g.owner ELSE g.thread

SetFlow(g, f, pc) ==
    IF f = "o" THEN [g EXCEPT !.owner = pc] ELSE [g EXCEPT !.thread = pc]

\* communicate() is left by flow f with an exception or, exc = "none", by
\* its return: the 'finally' sets _communication_started, and the history
\* gets the entry of the start call
EndCall(g, f, exc) ==
    Called(SetFlow([g EXCEPT !.started = TRUE], f,
                   IF f = "o" THEN "idle" ELSE "finished"),
           "start", 0, exc)

\* WhiptailGaugeBox.start, entered by flow f: self.process.communicate()
\* tests 'self.stdin and not self._communication_started'
StartCall(g, f) ==
    IF g.process = "none"
    THEN Called(g, "start", 0, "AttributeError")
    ELSE SetFlow(g, f, IF g.started THEN "lookup" ELSE "flush")

\* the next statement of communicate() in flow f:
\*   flush       self.stdin.flush(), a broken pipe ignored
\*   close       self.stdin.close(), a broken pipe ignored
\*   test        if not self._communication_started
\*   create      self._fileobj2output = {}
\*   create2     self._fileobj2output[self.stderr] = []
\*   lookup      stderr = self._fileobj2output[self.stderr]
\*   regtest     if self.stderr and not self.stderr.closed
\*   register    selector.register(self.stderr, ...)
\*   select      selector.select() and os.read(): text, or the end of the
\*               stream, or the failure on a stream the other flow closed
\*   append      self._fileobj2output[key.fileobj].append(data)
\*   eof         selector.unregister(...); key.fileobj.close()
\*   append_eof  self._fileobj2output[key.fileobj].append(b'')
CommunicateStep(g, f) ==
    LET pc == Pc(g, f)
    IN  CASE pc = "flush" ->
               IF g.stdin = "closed" THEN EndCall(g, f, "ValueError")
               ELSE SetFlow([g EXCEPT
                               !.pipe = IF g.process = "running" THEN @ \o g.buffer
                                        ELSE @,
                               !.buffer = IF g.process = "running" THEN <<>>
                                          ELSE @],
                            f, "close")
          [] pc = "close" ->
               IF g.stdin = "closed" THEN SetFlow(g, f, "test")
               ELSE SetFlow([g EXCEPT
                               !.stdin = "closed",
                               !.pipe = IF g.process = "running" THEN @ \o g.buffer
                                        ELSE @,
                               !.buffer = <<>>],
                            f, "test")
          [] pc = "test" ->
               SetFlow(g, f, IF g.started THEN "lookup" ELSE "create")
          [] pc = "create" ->
               SetFlow([g EXCEPT !.dict = "empty"], f, "create2")
          [] pc = "create2" ->
               SetFlow([g EXCEPT !.dict = f, !.lists[f] = <<>>], f, "lookup")
          [] pc = "lookup" ->
               IF g.dict = "none" THEN EndCall(g, f, "AttributeError")
               ELSE IF g.dict = "empty" THEN EndCall(g, f, "KeyError")
               ELSE SetFlow([g EXCEPT !.ref[f] = g.dict], f, "regtest")
          [] pc = "regtest" ->
               SetFlow(g, f, IF g.stderr = "closed" THEN "wait" ELSE "register")
          [] pc = "register" ->
               IF g.stderr = "closed" THEN EndCall(g, f, "ValueError")
               ELSE SetFlow(g, f, "select")
          [] pc = "select" ->
               IF g.stderr = "closed" THEN EndCall(g, f, "OSError")
               ELSE IF g.errpipe # <<>>
               THEN SetFlow([g EXCEPT !.chunk[f] = g.errpipe, !.errpipe = <<>>],
                            f, "append")
               ELSE SetFlow(g, f, "eof")
          [] pc = "append" ->
               IF g.dict = "empty" THEN EndCall(g, f, "KeyError")
               ELSE SetFlow([g EXCEPT !.lists[g.dict] = @ \o g.chunk[f],
                                      !.chunk[f] = <<>>],
                            f, "select")
          [] pc = "eof" ->
               SetFlow([g EXCEPT !.stderr = "closed"], f, "append_eof")
          [] pc = "append_eof" ->
               IF g.dict = "empty" THEN EndCall(g, f, "KeyError")
               ELSE SetFlow(g, f, "wait")

\* flow f can take its next statement: select() waits for text or for the
\* end of the child's error stream
CanStep(g, f) ==
    /\ Pc(g, f) \in CommunicatePcs \ {"wait"}
    /\ Pc(g, f) = "select" =>
         \/ g.stderr = "closed"
         \/ g.errpipe # <<>>
         \/ g.process = "exited"

\* WhiptailGaugeBox.start from the child's exit on: self.wait(), the join of
\* the list this call looked up, and in the owning flow the Response; a
\* Thread drops the value its target returns
StartReturn(g, f) ==
    IF f = "o"
    THEN [EndCall(g, f, "none") EXCEPT
            !.outcome = Response(g.returncode, g.lists[g.ref[f]])]
    ELSE EndCall(g, f, "none")

\* Thread.start() on the Thread object listen() created: the caller starts
\* the second flow, whose target is start
ThreadStart(g) == [g EXCEPT !.thread = "started"]

\* the second flow enters start
ThreadRun(g) == StartCall(g, "t")

\* the child process ends, having written err on its error stream
ChildEnds(g, rc, err) ==
    [g EXCEPT !.process = "exited", !.returncode = rc, !.errpipe = err]

GaugeInit ==
    /\ top = "gauge"
    /\ phase = "idle"
    /\ stack = <<>>
    /\ events = <<>>
    /\ values = <<>>
    /\ box_extra_args = <<>>
    /\ raised = NoExc
    /\ result = NoResp
    /\ gauge = GaugeNone
    /\ lst = ListNone
    /\ base = [obj |-> "none", in |-> <<>>]

\* the owning flow may make one more call: the history holds the constructor
\* call, the listen call and at most MaxCalls more, at most MaxEarly of
\* them made before listen()
OwnerFree ==
    /\ gauge.owner = "idle"
    /\ Len(gauge.calls) < MaxCalls + 2
    /\ gauge.process = "none" => Len(gauge.calls) <= MaxEarly

Construct ==
    \E percent \in GaugePercents :
        /\ gauge.obj = "none"
        /\ gauge.calls = <<>>
        /\ gauge' = GaugeConstruct(gauge, percent)
        /\ UNCHANGED dvars

\* one session per gauge object: listen() is called once
Listen ==
    /\ gauge.obj = "gauge"
    /\ gauge.process = "none"
    /\ gauge.owner = "idle"
    /\ gauge' = GaugeListen(gauge)
    /\ UNCHANGED dvars

\* update_percent through stdin.write
Update ==
    \E percent \in GaugePercents :
        /\ gauge.obj = "gauge"
        /\ OwnerFree
        /\ gauge' = UpdatePercent(gauge, percent)
        /\ UNCHANGED dvars

\* update_percent: stdin.flush, after whatever the second flow did meanwhile
Flush ==
    /\ gauge.owner = "in_update"
    /\ gauge' = UpdateFlush(gauge)
    /\ UNCHANGED dvars

Close ==
    /\ gauge.obj = "gauge"
    /\ OwnerFree
    /\ gauge' = Terminate(gauge)
    /\ UNCHANGED dvars

Start ==
    /\ gauge.obj = "gauge"
    /\ OwnerFree
    /\ gauge' = StartCall(gauge, "o")
    /\ UNCHANGED dvars

\* the owning flow takes its next statement inside communicate()
Communicate ==
    /\ CanStep(gauge, "o")
    /\ gauge' = CommunicateStep(gauge, "o")
    /\ UNCHANGED dvars

\* start comes back in the owning flow
StartDone ==
    /\ gauge.owner = "wait"
    /\ gauge.process = "exited"
    /\ gauge' = StartReturn(gauge, "o")
    /\ UNCHANGED dvars

ChildExits ==
    \E rc \in GaugeExitCodes, err \in GaugeErrTexts :
        /\ gauge.process = "running"
        /\ gauge' = ChildEnds(gauge, rc, err)
        /\ UNCHANGED dvars

\* the caller starts the Thread that listen() left in self.thread
WaiterStart ==
    /\ gauge.thread = "created"
    /\ gauge.owner = "idle"
    /\ gauge' = ThreadStart(gauge)
    /\ UNCHANGED dvars

WaiterRuns ==
    /\ gauge.thread = "started"
    /\ gauge' = ThreadRun(gauge)
    /\ UNCHANGED dvars

\* the second flow takes its next statement inside communicate()
WaiterCommunicates ==
    /\ CanStep(gauge, "t")
    /\ gauge' = CommunicateStep(gauge, "t")
    /\ UNCHANGED dvars

WaiterDone ==
    /\ gauge.thread = "wait"
    /\ gauge.process = "exited"
    /\ gauge' = StartReturn(gauge, "t")
    /\ UNCHANGED dvars

GaugeNext ==
    \/ Construct
    \/ Listen
    \/ Update
    \/ Flush
    \/ Close
    \/ Start
    \/ Communicate
    \/ StartDone
    \/ ChildExits
    \/ WaiterStart
    \/ WaiterRuns
    \/ WaiterCommunicates
    \/ WaiterDone

GaugeSpec == GaugeInit /\ [][GaugeNext]_vars

(***************************************************************************)
(* The claims about the gauge session, checked under GaugeSpec.            *)
(***************************************************************************)
(* C7: once listen() has returned, a second flow of control is running     *)
(* that waits for the child and captures its outcome.                      *)
WaiterRunsAfterListen ==
    gauge.process # "none" => gauge.thread = "started"

(* C8: a call update_percent(p) with p < 0 or p > 100 raises and changes   *)
(* nothing of the session: no text is written or buffered, the percent and *)
(* the stream are as before, so later calls find the session as it was.    *)
InvalidPercentRejected ==
    [][ LET n == Len(gauge'.calls)
            c == gauge'.calls[n]
        IN  (/\ n = Len(gauge.calls) + 1
             /\ c.op = "update_percent"
             /\ (c.arg < 0 \/ c.arg > 100)) =>
               /\ c.exc = "Exception"
               /\ gauge' = [gauge EXCEPT !.calls = Append(@, c)]
      ]_vars

\* update_percent(-1) was rejected on a listening gauge and a later
\* update_percent(42) wrote its line
RejectedThenAccepted ==
    /\ Len(gauge.calls) >= 4
    /\ gauge.calls[3].op = "update_percent" /\ gauge.calls[3].arg = -1
    /\ gauge.calls[3].process = "running" /\ gauge.calls[3].exc = "Exception"
    /\ gauge.calls[4].op = "update_percent" /\ gauge.calls[4].arg = 42
    /\ gauge.calls[4].exc = "none"
    /\ gauge.percent = 42
    /\ gauge.pipe = <<"4", "2", "\n">>

(* C9: every update_percent call that returned has its one newline-        *)
(* terminated decimal line in the text the child's input stream received,  *)
(* in call order, and nothing of it is left unflushed in the buffer when   *)
(* the call has returned: the text is the lines, in call order, of the     *)
(* calls that returned and of calls whose flush found the stream closed    *)
(* after their line had gone out (the call in progress included); 42 then  *)
(* 43 gives "42\n43\n".                                                    *)
Accepted(cs) ==
    SelectSeq(cs, LAMBDA c : c.op = "update_percent" /\ c.exc = "none")

RECURSIVE LinesOf(_)
LinesOf(cs) ==
    IF cs = <<>> THEN <<>> ELSE PercentLine(Head(cs).arg) \o LinesOf(Tail(cs))

RECURSIVE LinesAt(_, _, _)
LinesAt(cs, S, i) ==
    IF i > Len(cs) THEN <<>>
    ELSE (IF i \in S THEN PercentLine(cs[i].arg) ELSE <<>>) \o LinesAt(cs, S, i + 1)

UpdatesReachChildInOrder ==
    LET returned == {i \in DOMAIN gauge.calls :
                        /\ gauge.calls[i].op = "update_percent"
                        /\ gauge.calls[i].exc = "none"}
        closed == {i \in DOMAIN gauge.calls :
                        /\ gauge.calls[i].op = "update_percent"
                        /\ gauge.calls[i].exc = "ValueError"}
        pending == IF gauge.owner = "in_update"
                   THEN {<<>>, PercentLine(gauge.percent)} ELSE {<<>>}
    IN  /\ \E S \in SUBSET closed, last \in pending :
             gauge.pipe = LinesAt(gauge.calls, returned \cup S, 1) \o last
        /\ (/\ gauge.owner # "in_update"
            /\ gauge.calls # <<>>
            /\ Accepted(<<gauge.calls[Len(gauge.calls)]>>) # <<>>) =>
             gauge.buffer = <<>>
        /\ (/\ closed = {}
            /\ gauge.owner # "in_update"
            /\ Len(Accepted(gauge.calls)) = 2
            /\ Accepted(gauge.calls)[1].arg = 42
            /\ Accepted(gauge.calls)[2].arg = 43) =>
             gauge.pipe = <<"4", "2", "\n", "4", "3", "\n">>

\* update_percent(42) and then update_percent(43) returned
TwoUpdatesWritten ==
    /\ Len(Accepted(gauge.calls)) = 2
    /\ Accepted(gauge.calls)[1].arg = 42
    /\ Accepted(gauge.calls)[2].arg = 43
    /\ gauge.pipe = <<"4", "2", "\n", "4", "3", "\n">>

(* C10: no terminate() call on a listening gauge raises, whatever the      *)
(* state of the session.                                                   *)
TerminateNeverRaises ==
    \A i \in DOMAIN gauge.calls :
      (gauge.calls[i].op = "terminate" /\ gauge.calls[i].process # "none") =>
         gauge.calls[i].exc = "none"

(* C28: the child's input stream is closed only by terminate(): while the  *)
(* second flow runs start, a closed stream means terminate() was called,   *)
(* and every update_percent(p) with 0 <= p <= 100 made after listen(),     *)
(* before any terminate() and while the child runs returns, whatever the   *)
(* second flow has done.                                                   *)
OnlyTerminateClosesStream ==
    /\ (gauge.thread \in CommunicatePcs /\ gauge.stdin = "closed") =>
         \E j \in DOMAIN gauge.calls : gauge.calls[j].op = "terminate"
    /\ \A i \in DOMAIN gauge.calls :
         (/\ gauge.calls[i].op = "update_percent"
          /\ gauge.calls[i].arg \in 0..100
          /\ gauge.calls[i].process = "running"
          /\ \A j \in 1..(i - 1) : gauge.calls[j].op # "terminate") =>
            gauge.calls[i].exc = "none"

(* C11: constructing a gauge with an initial percent below 0 or above 100  *)
(* fails, so every constructed gauge was given a percent in 0..100 and its *)
(* trailing argument is the decimal text of a percent in 0..100.           *)
GaugeInitialPercentInRange ==
    /\ \A i \in DOMAIN gauge.calls :
         (/\ gauge.calls[i].op = "__init__"
          /\ (gauge.calls[i].arg < 0 \/ gauge.calls[i].arg > 100)) =>
            gauge.calls[i].exc = "Exception"
    /\ gauge.obj = "gauge" =>
         \E p \in 0..100 : gauge.extra = <<Str(p)>>

(***************************************************************************)
(* The list widgets.  The caller makes its items, constructs a menu, a     *)
(* checklist or a radiolist over them, sets the items' selected flag when  *)
(* it likes, and shows the widget, possibly more than once.                *)
(***************************************************************************)
ListInit ==
    /\ top \in ListKinds
    /\ phase = "idle"
    /\ stack = <<>>
    /\ events = <<>>
    /\ values = <<>>
    /\ box_extra_args = <<>>
    /\ raised = NoExc
    /\ result = NoResp
    /\ gauge = [obj |-> "none"]
    /\ base = [obj |-> "none", in |-> <<>>]
    /\ \E ks \in KeyLists :
         lst = [ListNone EXCEPT !.items = [i \in DOMAIN ks |-> ListItem(ks[i])]]

\* the caller assigns item.selected of a select item
SetSelected ==
    \E i \in DOMAIN lst.items, b \in BOOLEAN :
        /\ top # "menu"
        /\ lst.obj # "failed"
        /\ phase \in {"idle", "returned"}
        /\ lst.items[i].selected # b
        /\ lst.writes < MaxWrites
        /\ lst' = [lst EXCEPT !.items[i].selected = b, !.writes = @ + 1]
        /\ UNCHANGED <<top, gauge, base>>
        /\ UNCHANGED mvars

ConstructMenuBox ==
    \E description \in BOOLEAN :
        /\ top = "menu"
        /\ lst.obj = "none"
        /\ lst' = ListConstruct(lst, "menu", description, DemoHeight)
        /\ UNCHANGED <<top, gauge, base>>
        /\ UNCHANGED mvars

ConstructCheckListBox ==
    \E description \in BOOLEAN :
        /\ top = "checklist"
        /\ lst.obj = "none"
        /\ lst' = ListConstruct(lst, "checklist", description, DemoHeight)
        /\ UNCHANGED <<top, gauge, base>>
        /\ UNCHANGED mvars

ConstructRadioListBox ==
    \E description \in BOOLEAN :
        /\ top = "radiolist"
        /\ lst.obj = "none"
        /\ lst' = ListConstruct(lst, "radiolist", description, DemoHeight)
        /\ UNCHANGED <<top, gauge, base>>
        /\ UNCHANGED mvars

\* the caller calls show() on its list widget, the first time or again
ShowList ==
    /\ lst.obj \in ListKinds
    /\ phase \in {"idle", "returned"}
    /\ NSpawns(events) < MaxShows
    /\ Install(Run(Cur, TopWidget(top)))

ListNext ==
    \/ SetSelected
    \/ ConstructMenuBox
    \/ ConstructCheckListBox
    \/ ConstructRadioListBox
    \/ ShowList
    \/ MenuBoxCompletes
    \/ CheckListBoxCompletes
    \/ RadioListBoxCompletes

ListSpec == ListInit /\ [][ListNext]_vars

(***************************************************************************)
(* The claims about the list widgets, checked under ListSpec.              *)
(***************************************************************************)
(* C12: a positive outcome of a menu whose payload is the key of an item   *)
(* calls that item's on_selected once, with that item's data, and nothing  *)
(* else before the show returns; a negative outcome calls on_cancel only;  *)
(* a menu callback is called nowhere else.                                 *)
MenuRoutesToItem ==
    /\ \A i \in DOMAIN events :
         (events[i].e = "dispatch" /\ events[i].w = "menu") =>
            LET items == events[i].wid.items
                hits == {n \in DOMAIN items : items[n].key = events[i].val}
            IN  /\ (events[i].name = "positive" /\ hits # {}) =>
                      /\ Cardinality(hits) = 1
                      /\ Len(events) >= i + 2
                      /\ events[i + 1].e = "cb"
                      /\ events[i + 1].name = "on_selected"
                      /\ \A n \in hits : /\ events[i + 1].data = <<n>>
                                         /\ events[i + 1].val = items[n].data
                      /\ events[i + 2].e = "return"
                /\ events[i].name = "negative" =>
                      /\ Len(events) >= i + 2
                      /\ events[i + 1].e = "cb"
                      /\ events[i + 1].name = "on_cancel"
                      /\ events[i + 2].e = "return"
    /\ \A j \in DOMAIN events :
         (events[j].e = "cb" /\ events[j].w = "menu") =>
            /\ events[j - 1].e = "dispatch"
            /\ events[j].name = "on_selected" => events[j - 1].name = "positive"
            /\ events[j].name = "on_cancel" => events[j - 1].name = "negative"

\* of a menu over the keys a and b the second item was selected, and its
\* callback got its data
MenuSecondItemSelected ==
    /\ top = "menu"
    /\ phase = "returned"
    /\ Len(lst.items) = 2
    /\ \E j \in DOMAIN events :
         /\ events[j].e = "cb" /\ events[j].name = "on_selected"
         /\ events[j].data = <<2>>
         /\ events[j].val = <<"v", "b">>
         /\ events[j - 1].val = <<"b">>

(* C14: constructing a menu, a checklist or a radiolist over items two of  *)
(* which have the same key raises; over items with pairwise distinct keys  *)
(* it succeeds; so the items of a constructed list widget have pairwise    *)
(* distinct keys.                                                          *)
KeysDistinct(items) ==
    \A i, j \in DOMAIN items : i # j => items[i].key # items[j].key

UniqueKeysEnforced ==
    /\ lst.obj = "failed" => ~KeysDistinct(lst.items) /\ lst.exc = "Exception"
    /\ lst.obj \in ListKinds =>
         /\ KeysDistinct(lst.items)
         /\ lst.exc = "none"
         /\ lst.obj = top
    /\ \A i \in DOMAIN events :
         events[i].w \in ListKinds => KeysDistinct(events[i].wid.items)

\* a construction over two items with the same key has failed
DuplicateKeysRejected ==
    /\ lst.obj = "failed"
    /\ lst.exc = "Exception"
    /\ Len(lst.items) = 2
    /\ lst.items[1].key = lst.items[2].key

(* C15: on a positive outcome a checklist calls on_submit with the texts   *)
(* that stand between the 1st and 2nd, the 3rd and 4th, ... double quote   *)
(* of the payload, in that order (none when the payload has fewer than two *)
(* double quotes); a radiolist calls on_submit with the payload as it is.  *)
QuotePositions(s) == {i \in 1..Len(s) : s[i] = "\""}

NthQuote(s, n) ==
    CHOOSE q \in QuotePositions(s) :
        Cardinality({p \in QuotePositions(s) : p < q}) = n - 1

QuotedSegments(s) ==
    [n \in 1..(Cardinality(QuotePositions(s)) \div 2) |->
        SubSeq(s, NthQuote(s, 2 * n - 1) + 1, NthQuote(s, 2 * n) - 1)]

ListSubmitGetsPayload ==
    /\ \A i \in DOMAIN events :
         (/\ events[i].e = "dispatch" /\ events[i].name = "positive"
          /\ events[i].w \in {"checklist", "radiolist"}) =>
            /\ Len(events) >= i + 2
            /\ events[i + 1].e = "cb"
            /\ events[i + 1].name = "on_submit"
            /\ events[i + 2].e = "return"
            /\ events[i - 1].e = "exit" /\ events[i - 1].val = events[i].val
            /\ events[i].w = "checklist" =>
                 /\ events[i + 1].data = QuotedSegments(events[i].val)
                 /\ QuotePositions(events[i].val) = {} => events[i + 1].data = <<>>
                 /\ events[i].val = <<"\"", "a", "\"", " ", "\"", "b", "\"">> =>
                      events[i + 1].data = << <<"a">>, <<"b">> >>
            /\ events[i].w = "radiolist" => events[i + 1].val = events[i].val
    /\ \A j \in DOMAIN events :
         (/\ events[j].e = "cb" /\ events[j].name = "on_submit"
          /\ events[j].w \in {"checklist", "radiolist"}) =>
            events[j - 1].e = "dispatch" /\ events[j - 1].name = "positive"

\* a checklist handed over the keys a and b of the payload "a" "b"
CheckListSubmittedTwoKeys ==
    /\ top = "checklist"
    /\ phase = "returned"
    /\ \E j \in DOMAIN events :
         /\ events[j].e = "cb" /\ events[j].name = "on_submit"
         /\ events[j].data = << <<"a">>, <<"b">> >>
         /\ events[j - 1].val = <<"\"", "a", "\"", " ", "\"", "b", "\"">>

(* C18: each time a checklist or a radiolist is shown, the status argument *)
(* of each item is ON if the item's selected flag is set at that moment    *)
(* and OFF if not, whenever the caller has set or cleared the flag.        *)
StatusFollowsSelected ==
    \A i \in DOMAIN events :
      (events[i].e = "spawn" /\ events[i].w \in {"checklist", "radiolist"}) =>
         \A n \in DOMAIN events[i].data :
            events[i].args[1 + 3 * n] =
               IF events[i].data[n].selected THEN <<"O", "N">> ELSE <<"O", "F", "F">>

(***************************************************************************)
(* WhiptailBase: construction, geometry and the common options.  An        *)
(* optional value is None or Some(x).                                      *)
(***************************************************************************)
None == <<>>
Some(x) == <<x>>

whiptail_box_name_list ==
    {"msgbox", "yesno", "infobox", "inputbox", "passwordbox", "textbox",
     "menu", "checklist", "radiolist", "gauge"}

\* box names, heights and widths the caller passes to the constructor
CallerBoxes == {"msgbox", "gauge", "dialog"}
CallerHeights == {None, Some(DemoHeight)}
CallerWidths == {None, Some(DemoWidth)}

\* what shutil.get_terminal_size() can answer: at least one column and line
Terminals == [columns : {4, 80}, lines : 1..MaxLines]

\* WhiptailBase.get_default_height
GetDefaultHeight(term) ==
    LET height == term.lines - 2
    IN  height - (height % 5)

\* WhiptailBase.get_default_width: its third statement subtracts from a
\* local name that was never bound, so the call raises whatever the terminal
GetDefaultWidth(term) ==
    [exc |-> "UnboundLocalError", width |-> term.columns - 2]

\* no widget yet; in holds what the caller is going to pass
BaseNone(in) == [obj |-> "none", in |-> in]

\* the attributes WhiptailBase.__init__ sets before it validates
BaseAttributes(in) ==
    [obj |-> "widget", in |-> in, exc |-> "none",
     clear_on_exit |-> FALSE, default_no |-> FALSE, default_item |-> None,
     full_buttons |-> FALSE, no_cancel |-> FALSE, yes_button |-> None,
     no_button |-> None, ok_button |-> None, cancel_button |-> None,
     no_item |-> FALSE, no_tags |-> FALSE, separate_output |-> FALSE,
     title |-> None, backtitle |-> None, scrolltext |-> FALSE,
     topleft |-> FALSE, term_env |-> None,
     box |-> in.box, text |-> in.text,
     height |-> IF in.height = None THEN 0 ELSE in.height[1],
     width |-> IF in.width = None THEN 0 ELSE in.width[1],
     box_extra_args |-> <<>>, built |-> <<>>, cmds |-> <<>>]

\* WhiptailBase.__init__; built is the history of build_whiptail_args calls
\* and cmds that of the run and listen calls
BaseConstruct(in) ==
    LET b0 == BaseAttributes(in)
        b1 == IF in.height = None
              THEN [b0 EXCEPT !.height = GetDefaultHeight(in.term)]
              ELSE b0
    IN  IF in.box \notin whiptail_box_name_list
        THEN [b0 EXCEPT !.obj = "failed", !.exc = "Exception"]
        ELSE IF in.width = None
        THEN [b1 EXCEPT !.obj = "failed", !.exc = GetDefaultWidth(in.term).exc]
        ELSE b1

\* BuildWhiptailArgs, had it appended the title before the cancel button
BuildWhiptailArgsTitleFirst(b) ==
    LET flag(on, name) == IF on THEN <<name>> ELSE <<>>
        pair(value, name) == IF value # None THEN <<name, value[1]>> ELSE <<>>
    IN  flag(b.clear_on_exit, <<"-", "-", "c", "l", "e", "a", "r">>)
          \o flag(b.default_no, <<"-", "-", "d", "e", "f", "a", "u", "l", "t", "n", "o">>)
          \o flag(b.full_buttons, <<"-", "-", "f", "u", "l", "l", "b", "u", "t", "t", "o", "n", "s">>)
          \o flag(b.no_cancel, <<"-", "-", "n", "o", "c", "a", "n", "c", "e", "l">>)
          \o flag(b.no_item, <<"-", "-", "n", "o", "i", "t", "e", "m">>)
          \o flag(b.no_tags, <<"-", "-", "n", "o", "t", "a", "g", "s">>)
          \o flag(b.separate_output, <<"-", "-", "s", "e", "p", "a", "r", "a", "t", "e", "-", "o", "u", "t", "p", "u", "t">>)
          \o flag(b.scrolltext, <<"-", "-", "s", "c", "r", "o", "l", "l", "t", "e", "x", "t">>)
          \o flag(b.topleft, <<"-", "-", "t", "o", "p", "l", "e", "f", "t">>)
          \o pair(b.default_item, <<"-", "-", "d", "e", "f", "a", "u", "l", "t", "-", "i", "t", "e", "m">>)
          \o pair(b.yes_button, <<"-", "-", "y", "e", "s", "-", "b", "u", "t", "t", "o", "n">>)
          \o pair(b.no_button, <<"-", "-", "n", "o", "-", "b", "u", "t", "t", "o", "n">>)
          \o pair(b.ok_button, <<"-", "-", "o", "k", "-", "b", "u", "t", "t", "o", "n">>)
          \o pair(b.title, <<"-", "-", "t", "i", "t", "l", "e">>)
          \o pair(b.cancel_button, <<"-", "-", "c", "a", "n", "c", "e", "l", "-", "b", "u", "t", "t", "o", "n">>)
          \o pair(b.backtitle, <<"-", "-", "b", "a", "c", "k", "t", "i", "t", "l", "e">>)

\* WhiptailBase.build_whiptail_args
BuildWhiptailArgs(b) ==
    LET flag(on, name) == IF on THEN <<name>> ELSE <<>>
        pair(value, name) == IF value # None THEN <<name, value[1]>> ELSE <<>>
    IN  flag(b.clear_on_exit, <<"-", "-", "c", "l", "e", "a", "r">>)
          \o flag(b.default_no, <<"-", "-", "d", "e", "f", "a", "u", "l", "t", "n", "o">>)
          \o flag(b.full_buttons, <<"-", "-", "f", "u", "l", "l", "b", "u", "t", "t", "o", "n", "s">>)
          \o flag(b.no_cancel, <<"-", "-", "n", "o", "c", "a", "n", "c", "e", "l">>)
          \o flag(b.no_item, <<"-", "-", "n", "o", "i", "t", "e", "m">>)
          \o flag(b.no_tags, <<"-", "-", "n", "o", "t", "a", "g", "s">>)
          \o flag(b.separate_output, <<"-", "-", "s", "e", "p", "a", "r", "a", "t", "e", "-", "o", "u", "t", "p", "u", "t">>)
          \o flag(b.scrolltext, <<"-", "-", "s", "c", "r", "o", "l", "l", "t", "e", "x", "t">>)
          \o flag(b.topleft, <<"-", "-", "t", "o", "p", "l", "e", "f", "t">>)
          \o pair(b.default_item, <<"-", "-", "d", "e", "f", "a", "u", "l", "t", "-", "i", "t", "e", "m">>)
          \o pair(b.yes_button, <<"-", "-", "y", "e", "s", "-", "b", "u", "t", "t", "o", "n">>)
          \o pair(b.no_button, <<"-", "-", "n", "o", "-", "b", "u", "t", "t", "o", "n">>)
          \o pair(b.ok_button, <<"-", "-", "o", "k", "-", "b", "u", "t", "t", "o", "n">>)
          \o pair(b.cancel_button, <<"-", "-", "c", "a", "n", "c", "e", "l", "-", "b", "u", "t", "t", "o", "n">>)
          \o pair(b.title, <<"-", "-", "t", "i", "t", "l", "e">>)
          \o pair(b.backtitle, <<"-", "-", "b", "a", "c", "k", "t", "i", "t", "l", "e">>)

(***************************************************************************)
(* Construction: the caller constructs one widget, on some terminal.       *)
(***************************************************************************)
GeomInit ==
    /\ top = "base"
    /\ phase = "idle"
    /\ stack = <<>>
    /\ events = <<>>
    /\ values = <<>>
    /\ box_extra_args = <<>>
    /\ raised = NoExc
    /\ result = NoResp
    /\ gauge = [obj |-> "none"]
    /\ lst = ListNone
    /\ \E box \in CallerBoxes, height \in CallerHeights, width \in CallerWidths,
          term \in Terminals :
         base = BaseNone([box |-> box, text |-> MsgText, height |-> height,
                          width |-> width, term |-> term])

ConstructBase ==
    /\ base.obj = "none"
    /\ base' = BaseConstruct(base.in)
    /\ UNCHANGED <<top, gauge, lst>>
    /\ UNCHANGED mvars

GeomNext == ConstructBase

GeomSpec == GeomInit /\ [][GeomNext]_vars

(* C19: every construction of a widget of a known box succeeds and leaves  *)
(* a positive height and a positive width: the value the caller passed, or *)
(* for None the largest multiple of 5 that is at most the terminal's lines *)
(* (for the width: columns) minus 2.                                       *)
GeometryResolved ==
    (base.obj # "none" /\ base.in.box \in whiptail_box_name_list) =>
       /\ base.obj = "widget"
       /\ base.height > 0
       /\ base.width > 0
       /\ base.in.height # None => base.height = base.in.height[1]
       /\ base.in.width # None => base.width = base.in.width[1]
       /\ base.in.height = None =>
            /\ base.height % 5 = 0
            /\ base.height <= base.in.term.lines - 2
            /\ base.height + 5 > base.in.term.lines - 2
       /\ base.in.width = None =>
            /\ base.width % 5 = 0
            /\ base.width <= base.in.term.columns - 2
            /\ base.width + 5 > base.in.term.columns - 2

(***************************************************************************)
(* The common options: the caller sets options of a constructed widget and *)
(* then builds the argument vector, possibly more than once.               *)
(***************************************************************************)
\* texts the caller passes to the setters of the value options
OptionTexts == { <<"x">> }
TitleTexts == { <<"x">>, <<"-", "-", "t">> }

ArgsInit ==
    /\ top = "base"
    /\ phase = "idle"
    /\ stack = <<>>
    /\ events = <<>>
    /\ values = <<>>
    /\ box_extra_args = <<>>
    /\ raised = NoExc
    /\ result = NoResp
    /\ gauge = [obj |-> "none"]
    /\ lst = ListNone
    /\ base = BaseConstruct([box |-> "msgbox", text |-> MsgText,
                             height |-> Some(DemoHeight), width |-> Some(DemoWidth),
                             term |-> [columns |-> 80, lines |-> 24]])

\* the caller still configures: nothing was built yet
Configuring == base.obj = "widget" /\ base.built = <<>>

SetClearOnExit ==
    /\ Configuring
    /\ base' = [base EXCEPT !.clear_on_exit = TRUE]
    /\ UNCHANGED <<top, gauge, lst>>
    /\ UNCHANGED mvars

SetDefaultNo ==
    /\ Configuring
    /\ base' = [base EXCEPT !.default_no = TRUE]
    /\ UNCHANGED <<top, gauge, lst>>
    /\ UNCHANGED mvars

SetFullButtons ==
    /\ Configuring
    /\ base' = [base EXCEPT !.full_buttons = TRUE]
    /\ UNCHANGED <<top, gauge, lst>>
    /\ UNCHANGED mvars

SetNoCancel ==
    /\ Configuring
    /\ base' = [base EXCEPT !.no_cancel = TRUE]
    /\ UNCHANGED <<top, gauge, lst>>
    /\ UNCHANGED mvars

SetNoItem ==
    /\ Configuring
    /\ base' = [base EXCEPT !.no_item = TRUE]
    /\ UNCHANGED <<top, gauge, lst>>
    /\ UNCHANGED mvars

SetNoTags ==
    /\ Configuring
    /\ base' = [base EXCEPT !.no_tags = TRUE]
    /\ UNCHANGED <<top, gauge, lst>>
    /\ UNCHANGED mvars

SetSeparateOutput ==
    /\ Configuring
    /\ base' = [base EXCEPT !.separate_output = TRUE]
    /\ UNCHANGED <<top, gauge, lst>>
    /\ UNCHANGED mvars

SetScrolltext ==
    /\ Configuring
    /\ base' = [base EXCEPT !.scrolltext = TRUE]
    /\ UNCHANGED <<top, gauge, lst>>
    /\ UNCHANGED mvars

SetTopleft ==
    /\ Configuring
    /\ base' = [base EXCEPT !.topleft = TRUE]
    /\ UNCHANGED <<top, gauge, lst>>
    /\ UNCHANGED mvars

SetDefaultItem ==
    \E default_item \in OptionTexts :
        /\ Configuring
        /\ base' = [base EXCEPT !.default_item = Some(default_item)]
        /\ UNCHANGED <<top, gauge, lst>>
        /\ UNCHANGED mvars

SetYesButton ==
    \E yes_button \in OptionTexts :
        /\ Configuring
        /\ base' = [base EXCEPT !.yes_button = Some(yes_button)]
        /\ UNCHANGED <<top, gauge, lst>>
        /\ UNCHANGED mvars

SetNoButton ==
    \E no_button \in OptionTexts :
        /\ Configuring
        /\ base' = [base EXCEPT !.no_button = Some(no_button)]
        /\ UNCHANGED <<top, gauge, lst>>
        /\ UNCHANGED mvars

SetOkButton ==
    \E ok_button \in OptionTexts :
        /\ Configuring
        /\ base' = [base EXCEPT !.ok_button = Some(ok_button)]
        /\ UNCHANGED <<top, gauge, lst>>
        /\ UNCHANGED mvars

SetCancelButton ==
    \E cancel_button \in OptionTexts :
        /\ Configuring
        /\ base' = [base EXCEPT !.cancel_button = Some(cancel_button)]
        /\ UNCHANGED <<top, gauge, lst>>
        /\ UNCHANGED mvars

SetTitle ==
    \E title \in TitleTexts :
        /\ Configuring
        /\ base' = [base EXCEPT !.title = Some(title)]
        /\ UNCHANGED <<top, gauge, lst>>
        /\ UNCHANGED mvars

SetBacktitle ==
    \E backtitle \in OptionTexts :
        /\ Configuring
        /\ base' = [base EXCEPT !.backtitle = Some(backtitle)]
        /\ UNCHANGED <<top, gauge, lst>>
        /\ UNCHANGED mvars

\* the caller calls build_whiptail_args, as run does for each show
Build ==
    /\ base.obj = "widget"
    /\ Len(base.built) < MaxBuilds
    /\ base' = [base EXCEPT !.built = Append(@, BuildWhiptailArgs(base))]
    /\ UNCHANGED <<top, gauge, lst>>
    /\ UNCHANGED mvars

ArgsNext ==
    \/ SetClearOnExit
    \/ SetDefaultNo
    \/ SetFullButtons
    \/ SetNoCancel
    \/ SetNoItem
    \/ SetNoTags
    \/ SetSeparateOutput
    \/ SetScrolltext
    \/ SetTopleft
    \/ SetDefaultItem
    \/ SetYesButton
    \/ SetNoButton
    \/ SetOkButton
    \/ SetCancelButton
    \/ SetTitle
    \/ SetBacktitle
    \/ Build

ArgsSpec == ArgsInit /\ [][ArgsNext]_vars

(* C20: for every combination of the 16 options, build_whiptail_args gives *)
(* the names of the set flags in the order clear, defaultno, fullbuttons,  *)
(* nocancel, noitem, notags, separate-output, scrolltext, topleft, then    *)
(* name and value of each set value option in the order default-item,      *)
(* yes-button, no-button, ok-button, cancel-button, title, backtitle, the  *)
(* values as they were set; nothing else; it changes no option, and a      *)
(* second build gives the same vector.                                     *)
FlagOrder == <<
    [attr |-> "clear_on_exit", name |-> <<"-", "-", "c", "l", "e", "a", "r">>],
    [attr |-> "default_no", name |-> <<"-", "-", "d", "e", "f", "a", "u", "l", "t", "n", "o">>],
    [attr |-> "full_buttons", name |-> <<"-", "-", "f", "u", "l", "l", "b", "u", "t", "t", "o", "n", "s">>],
    [attr |-> "no_cancel", name |-> <<"-", "-", "n", "o", "c", "a", "n", "c", "e", "l">>],
    [attr |-> "no_item", name |-> <<"-", "-", "n", "o", "i", "t", "e", "m">>],
    [attr |-> "no_tags", name |-> <<"-", "-", "n", "o", "t", "a", "g", "s">>],
    [attr |-> "separate_output", name |-> <<"-", "-", "s", "e", "p", "a", "r", "a", "t", "e", "-", "o", "u", "t", "p", "u", "t">>],
    [attr |-> "scrolltext", name |-> <<"-", "-", "s", "c", "r", "o", "l", "l", "t", "e", "x", "t">>],
    [attr |-> "topleft", name |-> <<"-", "-", "t", "o", "p", "l", "e", "f", "t">>] >>

ValueOrder == <<
    [attr |-> "default_item", name |-> <<"-", "-", "d", "e", "f", "a", "u", "l", "t", "-", "i", "t", "e", "m">>],
    [attr |-> "yes_button", name |-> <<"-", "-", "y", "e", "s", "-", "b", "u", "t", "t", "o", "n">>],
    [attr |-> "no_button", name |-> <<"-", "-", "n", "o", "-", "b", "u", "t", "t", "o", "n">>],
    [attr |-> "ok_button", name |-> <<"-", "-", "o", "k", "-", "b", "u", "t", "t", "o", "n">>],
    [attr |-> "cancel_button", name |-> <<"-", "-", "c", "a", "n", "c", "e", "l", "-", "b", "u", "t", "t", "o", "n">>],
    [attr |-> "title", name |-> <<"-", "-", "t", "i", "t", "l", "e">>],
    [attr |-> "backtitle", name |-> <<"-", "-", "b", "a", "c", "k", "t", "i", "t", "l", "e">>] >>

ExpectedArgs(b) ==
    LET flags == SelectSeq(FlagOrder, LAMBDA f : b[f.attr])
        values_set == SelectSeq(ValueOrder, LAMBDA f : b[f.attr] # None)
    IN  [i \in 1..Len(flags) |-> flags[i].name]
          \o [i \in 1..(2 * Len(values_set)) |->
                IF i % 2 = 1 THEN values_set[(i + 1) \div 2].name
                ELSE b[values_set[i \div 2].attr][1]]

ArgsInFixedOrder ==
    [][ Len(base'.built) = Len(base.built) + 1 =>
          /\ base' = [base EXCEPT !.built = Append(@, ExpectedArgs(base))]
          /\ base.built # <<>> => base'.built[Len(base'.built)] = base.built[1]
      ]_vars

\* all 16 options were set, the title to a text that looks like an option,
\* and the vector was built twice
AllOptionsBuiltTwice ==
    /\ Len(base.built) = 2
    /\ \A i \in DOMAIN FlagOrder : base[FlagOrder[i].attr]
    /\ \A i \in DOMAIN ValueOrder : base[ValueOrder[i].attr] # None
    /\ base.title = Some(<<"-", "-", "t">>)
    /\ Len(base.built[1]) = 23
    /\ base.built[1][21] = <<"-", "-", "t">>

(***************************************************************************)
(* The command line: run() and the gauge's listen() build the argument     *)
(* vector from the widget and hand it to subprocess.Popen, which executes  *)
(* its first element.                                                      *)
(***************************************************************************)
\* the name of the renderer's executable
Renderer == <<"w", "h", "i", "p", "t", "a", "i", "l">>

\* the text of a box name
BoxName(box) ==
    CASE box = "msgbox" -> <<"m", "s", "g", "b", "o", "x">>
      [] box = "yesno" -> <<"y", "e", "s", "n", "o">>
      [] box = "infobox" -> <<"i", "n", "f", "o", "b", "o", "x">>
      [] box = "inputbox" -> <<"i", "n", "p", "u", "t", "b", "o", "x">>
      [] box = "passwordbox" -> <<"p", "a", "s", "s", "w", "o", "r", "d", "b", "o", "x">>
      [] box = "textbox" -> <<"t", "e", "x", "t", "b", "o", "x">>
      [] box = "menu" -> <<"m", "e", "n", "u">>
      [] box = "checklist" -> <<"c", "h", "e", "c", "k", "l", "i", "s", "t">>
      [] box = "radiolist" -> <<"r", "a", "d", "i", "o", "l", "i", "s", "t">>
      [] box = "gauge" -> <<"g", "a", "u", "g", "e">>

\* ListenCmd, had it left out the "--" in front of the text
ListenCmdNoTerminator(b) ==
    LET env == IF b.term_env # None THEN <<<<"T", "E", "R", "M", "=">> \o b.term_env[1]>> ELSE <<>>
    IN  env \o <<Renderer>> \o BuildWhiptailArgs(b)
          \o <<<<"-", "-">> \o BoxName(b.box), b.text,
               Str(b.height), Str(b.width)>>
          \o b.box_extra_args

\* WhiptailBase.run: the argument vector
RunCmd(b) ==
    LET env == IF b.term_env # None THEN <<<<"T", "E", "R", "M", "=">> \o b.term_env[1]>> ELSE <<>>
    IN  env \o <<Renderer>> \o BuildWhiptailArgs(b)
          \o <<<<"-", "-">> \o BoxName(b.box), <<"-", "-">>, b.text,
               Str(b.height), Str(b.width)>>
          \o b.box_extra_args

\* WhiptailGaugeBox.listen: the argument vector
ListenCmd(b) ==
    LET env == IF b.term_env # None THEN <<<<"T", "E", "R", "M", "=">> \o b.term_env[1]>> ELSE <<>>
    IN  env \o <<Renderer>> \o BuildWhiptailArgs(b)
          \o <<<<"-", "-">> \o BoxName(b.box), <<"-", "-">>, b.text,
               Str(b.height), Str(b.width)>>
          \o b.box_extra_args

\* subprocess.Popen(cmd): the first element is the program to execute; the
\* renderer is installed, a program called TERM=... is not
Popen(cmd) == IF cmd[1] = Renderer THEN "none" ELSE "FileNotFoundError"

\* texts, terminal types and titles the caller gives its widget
CmdTexts == { MsgText, <<"-", "t">> }
TermEnvs == { None, Some(<<"a", "n", "s", "i">>) }
CmdTitles == { None, Some(<<"-", "-">>) }

CmdInit ==
    /\ top = "base"
    /\ phase = "idle"
    /\ stack = <<>>
    /\ events = <<>>
    /\ values = <<>>
    /\ box_extra_args = <<>>
    /\ raised = NoExc
    /\ result = NoResp
    /\ gauge = [obj |-> "none"]
    /\ lst = ListNone
    /\ \E box \in {"msgbox", "gauge"}, text \in CmdTexts, term_env \in TermEnvs,
          clear_on_exit \in BOOLEAN, title \in CmdTitles :
         base = [BaseConstruct([box |-> box, text |-> text,
                                height |-> Some(DemoHeight),
                                width |-> Some(DemoWidth),
                                term |-> [columns |-> 80, lines |-> 24]])
                   EXCEPT !.term_env = term_env,
                          !.clear_on_exit = clear_on_exit,
                          !.title = title,
                          !.box_extra_args = IF box = "gauge" THEN <<Str(0)>>
                                             ELSE <<>>]

\* run() up to Popen
RunSpawns ==
    /\ base.obj = "widget"
    /\ Len(base.cmds) < MaxRuns
    /\ base' = [base EXCEPT !.cmds =
                  Append(@, [by |-> "run", cmd |-> RunCmd(base),
                             exc |-> Popen(RunCmd(base))])]
    /\ UNCHANGED <<top, gauge, lst>>
    /\ UNCHANGED mvars

\* listen() up to Popen
ListenSpawns ==
    /\ base.obj = "widget"
    /\ base.box = "gauge"
    /\ Len(base.cmds) < MaxRuns
    /\ base' = [base EXCEPT !.cmds =
                  Append(@, [by |-> "listen", cmd |-> ListenCmd(base),
                             exc |-> Popen(ListenCmd(base))])]
    /\ UNCHANGED <<top, gauge, lst>>
    /\ UNCHANGED mvars

CmdNext ==
    \/ RunSpawns
    \/ ListenSpawns

CmdSpec == CmdInit /\ [][CmdNext]_vars

(* C21: every argument vector run() or listen() builds is, after the       *)
(* optional TERM prefix, the renderer name, the option arguments, the box  *)
(* as --<box>, the literal --, the text, the height, the width and the     *)
(* trailing arguments; the text stands right behind the literal --; a      *)
(* vector a child was started with begins with the renderer name; run()    *)
(* and listen() build the same vector for the same widget.                 *)
ArgvShape ==
    /\ \A i \in DOMAIN base.cmds :
         LET cmd == base.cmds[i].cmd
             k == IF base.term_env = None THEN 1 ELSE 2
             n == Len(ExpectedArgs(base))
         IN  /\ Len(cmd) = k + n + 5 + Len(base.box_extra_args)
             /\ cmd[k] = <<"w", "h", "i", "p", "t", "a", "i", "l">>
             /\ SubSeq(cmd, k + 1, k + n) = ExpectedArgs(base)
             /\ cmd[k + n + 1] = <<"-", "-">> \o BoxName(base.box)
             /\ cmd[k + n + 2] = <<"-", "-">>
             /\ cmd[k + n + 3] = base.text
             /\ cmd[k + n + 4] = Str(base.height)
             /\ cmd[k + n + 5] = Str(base.width)
             /\ SubSeq(cmd, k + n + 6, Len(cmd)) = base.box_extra_args
             /\ base.cmds[i].exc = "none" => k = 1
    /\ \A i, j \in DOMAIN base.cmds : base.cmds[i].cmd = base.cmds[j].cmd

\* a gauge whose text is -t and whose title is -- was started with run()
\* and with listen()
GaugeRunAndListen ==
    /\ base.box = "gauge"
    /\ base.text = <<"-", "t">>
    /\ base.title = Some(<<"-", "-">>)
    /\ Len(base.cmds) = 2
    /\ base.cmds[1].by = "run" /\ base.cmds[1].exc = "none"
    /\ base.cmds[2].by = "listen" /\ base.cmds[2].exc = "none"
    /\ base.cmds[2].cmd[6] = <<"-", "t">>

(* C30: with or without a terminal type set, run() and listen() execute    *)
(* the renderer: the spawn succeeds and the program is the renderer.       *)
TermEnvKeepsRenderer ==
    \A i \in DOMAIN base.cmds :
       /\ base.cmds[i].exc = "none"
       /\ base.cmds[i].cmd[1] = Renderer


(***************************************************************************)
(* The construction of a form from the caller's items.                     *)
(***************************************************************************)
\* the keys, password flags and values a caller gives to WhiptailFormItem
CallerFormKeys == { <<>>, <<"k">>, <<"p">> }

CallerFormValues == { <<>>, <<"x">> }

CallerFormItem == [key : CallerFormKeys, password : BOOLEAN, value : CallerFormValues]

CallerFormItemLists ==
    UNION { [1..n -> CallerFormItem] : n \in 0..MaxItems }

\* WhiptailFormBox.__init__: the trailing arguments built from the items
FormConstructArgs(items, height) ==
    LET pairs == [i \in 1..Len(items) |->
                     <<items[i].key,
                       <<"-", " ">> \o (IF items[i].password
                                        THEN Repeat("*", Len(items[i].value))
                                        ELSE items[i].value)>>]
        menu == Append(pairs, << <<>>, <<"[">> \o SubmitLabel \o <<"]">> >>)
    IN  <<Str(GetDefaultListHeight(height))>> \o Flatten(menu)

\* WhiptailFormBox.__init__: raises when two items have the same key
FormConstruct(items) ==
    IF Cardinality({items[i].key : i \in DOMAIN items}) # Len(items)
    THEN [obj |-> "raised", items |-> items, box_extra_args |-> <<>>]
    ELSE [obj |-> "form", items |-> items,
          box_extra_args |-> FormConstructArgs(items, DemoHeight)]

\* the tags of the rows of the menu, in row order
FormTags(args) == [r \in 1..((Len(args) - 1) \div 2) |-> args[2 * r]]

FormInit ==
    /\ top = "base"
    /\ phase = "idle"
    /\ stack = <<>>
    /\ events = <<>>
    /\ values = <<>>
    /\ box_extra_args = <<>>
    /\ raised = NoExc
    /\ result = NoResp
    /\ gauge = [obj |-> "none"]
    /\ lst = ListNone
    /\ \E items \in CallerFormItemLists :
         base = [obj |-> "none", items |-> items, box_extra_args |-> <<>>]

\* the caller constructs the form
ConstructFormBox ==
    /\ base.obj = "none"
    /\ base' = FormConstruct(base.items)
    /\ UNCHANGED <<top, gauge, lst>>
    /\ UNCHANGED mvars

FormNext ==
    ConstructFormBox

FormSpec == FormInit /\ [][FormNext]_vars

(* C27: in the menu of a constructed form the tags of the rows are         *)
(* pairwise distinct, the submit row's empty tag included.                 *)
FormTagsDistinct ==
    base.obj = "form" =>
      \A r1, r2 \in DOMAIN FormTags(base.box_extra_args) :
         r1 # r2 => FormTags(base.box_extra_args)[r1] # FormTags(base.box_extra_args)[r2]

====
